---- MODULE Spec2Model ----
(***************************************************************************)
(* Incremental hierarchy synchronisation of akeneo-migrator:               *)
(*   - syncing_since.Service (Sync, findModelRoot, findProductRoot): the   *)
(*     orchestrator that resolves every changed node to its root and       *)
(*     copies each root's hierarchy;                                       *)
(*   - syncing.Service (Sync, syncChildProducts, syncChildModels,          *)
(*     syncVariantProducts): the hierarchy copier.                         *)
(* The source and destination repositories are the environment: every call *)
(* to them may fail, which is modelled by a set F of fault points chosen   *)
(* for each handled node.                                                  *)
(***************************************************************************)
EXTENDS Naturals, Integers, Sequences, FiniteSets, TLC

VARIABLES phase, modelFeed, productFeed, idx, syncedHierarchies, result,
          retErr, handled, faultsLeft,
          rNode, rFaults, rOut,
          wStart, wNode, wFaults, wHops, wRoot,
          dRoot, dest, dPrev, dCopies, dCalls, dPrevCalls,
          sKind, sSizes, sFetched, sPagesFetched, sPages, sInVisit, sPos,
          sVisits, sKept,
          runNo, prevHandled, faultsAtStart,
          middlewares, handlers, cmd, busPc, busAt, executionOrder,
          response, busErr,
          clients, clientsMux, connPc, gone, writers, raced, received,
          procState, pipe, emitted, pipeClosed, gPc, gMsg, gTodo, gAt,
          crashed

vars == <<phase, modelFeed, productFeed, idx, syncedHierarchies, result,
          retErr, handled, faultsLeft, rNode, rFaults, rOut,
          wStart, wNode, wFaults, wHops, wRoot,
          dRoot, dest, dPrev, dCopies, dCalls, dPrevCalls,
          sKind, sSizes, sFetched, sPagesFetched, sPages, sInVisit, sPos,
          sVisits, sKept,
          runNo, prevHandled, faultsAtStart,
          middlewares, handlers, cmd, busPc, busAt, executionOrder,
          response, busErr,
          clients, clientsMux, connPc, gone, writers, raced, received,
          procState, pipe, emitted, pipeClosed, gPc, gMsg, gTodo, gAt,
          crashed>>

orchVars == <<phase, modelFeed, productFeed, idx, syncedHierarchies, result,
              retErr, handled, faultsLeft>>

resolveVars == <<rNode, rFaults, rOut>>

walkVars == <<wStart, wNode, wFaults, wHops, wRoot>>

destVars == <<dRoot, dest, dPrev, dCopies, dCalls, dPrevCalls>>

streamVars == <<sKind, sSizes, sFetched, sPagesFetched, sPages, sInVisit, sPos,
                sVisits, sKept>>

runVars == <<runNo, prevHandled, faultsAtStart>>

busVars == <<middlewares, handlers, cmd, busPc, busAt, executionOrder,
             response, busErr>>

webVars == <<clients, clientsMux, connPc, gone, writers, raced, received,
             procState, pipe, emitted, pipeClosed, gPc, gMsg, gTodo, gAt,
          crashed>>

\* what the actions of one specification leave alone: the variables of the
\* other specifications
outsideOrch == <<resolveVars, walkVars, destVars, streamVars, runVars, busVars, webVars>>
outsideResolve == <<orchVars, walkVars, destVars, streamVars, runVars, busVars, webVars>>
outsideWalk == <<orchVars, resolveVars, destVars, streamVars, runVars, busVars, webVars>>
outsideDest == <<orchVars, resolveVars, walkVars, streamVars, runVars, busVars, webVars>>
outsideStream == <<orchVars, resolveVars, walkVars, destVars, runVars, busVars, webVars>>
outsideRun == <<resolveVars, walkVars, destVars, streamVars, busVars, webVars>>
outsideBus == <<resolveVars, walkVars, destVars, streamVars, runVars, orchVars, webVars>>
outsideWeb == <<resolveVars, walkVars, destVars, streamVars, runVars, busVars, orchVars>>

(***************************************************************************)
(* Bounds                                                                  *)
(***************************************************************************)
\* longest changed-models feed of a run
MaxModelFeed == 1
\* longest changed-products feed of a run
MaxProductFeed == 1
\* collaborator calls that fail during one run of the orchestrator
MaxFaults == 1
\* lookups that fail during one resolver call of the resolver specification
MaxResolveFaults == 2

(***************************************************************************)
(* Nodes.  A node is the string-keyed map of the code reduced to the two   *)
(* fields the engine reads: its identity (code / identifier) and parent.   *)
(* Absent stands for a field that is missing or not a string.              *)
(***************************************************************************)
Absent == "<absent>"
Nil == "<nil>"

\* the variables of a specification while another specification runs
NoOrch ==
  /\ phase = "Idle" /\ modelFeed = <<>> /\ productFeed = <<>> /\ idx = 1
  /\ syncedHierarchies = {} /\ result = Nil /\ retErr = Nil
  /\ handled = <<>> /\ faultsLeft = 0
NoResolve == rNode = Nil /\ rFaults = {} /\ rOut = {}
NoWalk == wStart = Nil /\ wNode = Nil /\ wFaults = {} /\ wHops = 0 /\ wRoot = {}
NoDest ==
  /\ dRoot = Nil /\ dest = <<>> /\ dPrev = <<>> /\ dCopies = 0
  /\ dCalls = <<>> /\ dPrevCalls = <<>>
NoStream ==
  /\ sKind = "done" /\ sSizes = <<>> /\ sFetched = 0 /\ sPagesFetched = 0
  /\ sPages = {} /\ sInVisit = FALSE /\ sPos = 0 /\ sVisits = 0 /\ sKept = {}
NoRuns == runNo = 0 /\ prevHandled = <<>> /\ faultsAtStart = 0
NoBus ==
  /\ middlewares = <<>> /\ handlers = <<>> /\ cmd = Nil /\ busPc = "parked"
  /\ busAt = 0 /\ executionOrder = <<>> /\ response = Nil /\ busErr = Nil
NoWeb ==
  /\ clients = {} /\ clientsMux = Nil /\ connPc = <<>> /\ gone = {}
  /\ writers = <<>> /\ raced = {} /\ received = <<>> /\ procState = "parked"
  /\ pipe = <<>> /\ emitted = <<>> /\ pipeClosed = FALSE /\ gPc = <<>>
  /\ gMsg = <<>>
  /\ gTodo = <<>> /\ gAt = <<>> /\ crashed = FALSE

Node(kind, key, parent) == [kind |-> kind, key |-> key, parent |-> parent]

\* The source catalogue, in the order the source lists it: three trees.
\*   R (model) -- G1 (model) -- L1, L2 (products)
\*             -- G2 (model)
\*   Q (model) -- K1 (model) -- K2 (model)
\*             -- D (product attached to the root model) -- X (product)
\*   S (product) -- C (product) -- E (product)
SourceSeq ==
  << Node("model", "R", Absent),
     Node("model", "G1", "R"),
     Node("model", "G2", "R"),
     Node("product", "L1", "G1"),
     Node("product", "L2", "G1"),
     Node("model", "Q", Absent),
     Node("model", "K1", "Q"),
     Node("model", "K2", "K1"),
     Node("product", "D", "Q"),
     Node("product", "X", "D"),
     Node("product", "S", ""),
     Node("product", "C", "S"),
     Node("product", "E", "C") >>

Range(s) == {s[i] : i \in 1..Len(s)}

Source == Range(SourceSeq)
SourceModels == {n \in Source : n.kind = "model"}
SourceProducts == {n \in Source : n.kind = "product"}
Keys == {n.key : n \in Source}

\* a feed node without a string identity field
MalformedModel == Node("model", Absent, Absent)
MalformedProduct == Node("product", Absent, Absent)

\* the nodes the two change feeds of a run are drawn from
FeedModels == {n \in SourceModels : n.key \in {"G1", "Q"}} \cup {MalformedModel}
FeedProducts == {n \in SourceProducts : n.key \in {"L1", "C"}} \cup {MalformedProduct}

(***************************************************************************)
(* Fault points: one collaborator call that returns an error.  site tells  *)
(* the call sites of one operation apart.                                  *)
(***************************************************************************)
Fault(op, site, key) == [op |-> op, site |-> site, key |-> key]

ResolveFaultPoints ==
  {Fault(op, "resolve", k) : op \in {"FindModelByCode", "FindByIdentifier"},
                             k \in {n.parent : n \in Source} \cap Keys}

CopyFaultPoints ==
       {Fault(op, "common", Nil) : op \in {"FindByIdentifier", "FindModelByCode"}}
  \cup {Fault("FindModelsByParent", site, Nil) : site \in {"childModels", "variants"}}
  \cup {Fault("FindProductsByParent", "copy", k) : k \in Keys}
  \cup {Fault("Save", "copy", n.key) : n \in SourceProducts}
  \cup {Fault("SaveModel", "copy", n.key) : n \in SourceModels}

FaultPoints == ResolveFaultPoints \cup CopyFaultPoints

\* the sets of at most n elements of S
RECURSIVE SubsetsUpTo(_, _)
SubsetsUpTo(S, n) ==
  IF n = 0 THEN {{}}
  ELSE LET smaller == SubsetsUpTo(S, n - 1)
       IN smaller \cup {T \cup {x} : T \in smaller, x \in S}

(***************************************************************************)
(* Source repository (read side)                                           *)
(***************************************************************************)
Call(op, key, ok) == [op |-> op, key |-> key, ok |-> ok]

\* FindModelByCode: the model of that code, or an error
FindModelByCode(code, F, site) ==
  LET hit == {n \in SourceModels : n.key = code}
      fk == IF site = "common" THEN Nil ELSE code
  IN IF hit = {} \/ Fault("FindModelByCode", site, fk) \in F
     THEN [err |-> TRUE, node |-> Nil]
     ELSE [err |-> FALSE, node |-> CHOOSE n \in hit : TRUE]

\* FindByIdentifier: the product of that identifier, or an error
FindByIdentifier(identifier, F, site) ==
  LET hit == {n \in SourceProducts : n.key = identifier}
      fk == IF site = "common" THEN Nil ELSE identifier
  IN IF hit = {} \/ Fault("FindByIdentifier", site, fk) \in F
     THEN [err |-> TRUE, node |-> Nil]
     ELSE [err |-> FALSE, node |-> CHOOSE n \in hit : TRUE]

\* FindProductsByParent: the products whose parent is parentCode, in source order
FindProductsByParent(parentCode, F) ==
  IF Fault("FindProductsByParent", "copy", parentCode) \in F
  THEN [err |-> TRUE, nodes |-> <<>>]
  ELSE [err |-> FALSE,
        nodes |-> SelectSeq(SourceSeq,
                    LAMBDA n : n.kind = "product" /\ n.parent = parentCode)]

\* FindModelsByParent: the models whose parent is parentCode, in source order
FindModelsByParent(parentCode, F, site) ==
  IF Fault("FindModelsByParent", site, Nil) \in F
  THEN [err |-> TRUE, nodes |-> <<>>]
  ELSE [err |-> FALSE,
        nodes |-> SelectSeq(SourceSeq,
                    LAMBDA n : n.kind = "model" /\ n.parent = parentCode)]

(***************************************************************************)
(* Destination repository (write side): Save / SaveModel are upserts that  *)
(* the destination may reject.                                             *)
(***************************************************************************)
Save(identifier, F) == Fault("Save", "copy", identifier) \notin F
SaveModel(code, F) == Fault("SaveModel", "copy", code) \notin F

(***************************************************************************)
(* Hierarchy resolver (syncing_since.Service.findModelRoot /               *)
(* findProductRoot).  The result carries, besides the root key the code    *)
(* returns, the source lookups the walk made and whether it ended in the   *)
(* "treat current as root" fallback.                                       *)
(***************************************************************************)
\* variant of HasParent that takes the empty string for a parent key
HasParent_EmptyIsParent(n) == n.parent \notin {Absent, "null"}

\* model["parent"].(string) is a string other than "" and "null"
HasParent(n) == n.parent \notin {Absent, "", "null"}

\* model["code"].(string) / prod["identifier"].(string): "" when absent
KeyOf(n) == IF n.key = Absent THEN "" ELSE n.key

Resolved(root, lookups, orphan) ==
  [root |-> root, lookups |-> lookups, orphan |-> orphan]

\* variant of findModelRoot that stops at the parent instead of walking on
findModelRoot_OneHop(model, F) ==
  IF ~HasParent(model)
  THEN Resolved(KeyOf(model), <<>>, FALSE)
  ELSE LET parentModel == FindModelByCode(model.parent, F, "resolve")
           lk == Call("FindModelByCode", model.parent, ~parentModel.err)
       IN IF parentModel.err
          THEN Resolved(KeyOf(model), <<lk>>, TRUE)
          ELSE Resolved(KeyOf(parentModel.node), <<lk>>, FALSE)

RECURSIVE findModelRoot(_, _)
findModelRoot(model, F) ==
  IF ~HasParent(model)
  THEN Resolved(KeyOf(model), <<>>, FALSE)
  ELSE LET parentModel == FindModelByCode(model.parent, F, "resolve")
           lk == Call("FindModelByCode", model.parent, ~parentModel.err)
       IN IF parentModel.err
          THEN Resolved(KeyOf(model), <<lk>>, TRUE)
          ELSE LET up == findModelRoot(parentModel.node, F)
               IN Resolved(up.root, <<lk>> \o up.lookups, up.orphan)

\* variant of findProductRoot that takes the parent it finds for the root
\* instead of walking on from it
findProductRoot_OneHop(prod, F) ==
  IF ~HasParent(prod)
  THEN Resolved(KeyOf(prod), <<>>, FALSE)
  ELSE LET parentModel == FindModelByCode(prod.parent, F, "resolve")
           lkM == Call("FindModelByCode", prod.parent, ~parentModel.err)
           parentProduct == FindByIdentifier(prod.parent, F, "resolve")
           lkP == Call("FindByIdentifier", prod.parent, ~parentProduct.err)
       IN IF ~parentModel.err
          THEN Resolved(KeyOf(parentModel.node), <<lkM>>, FALSE)
          ELSE IF parentProduct.err
          THEN Resolved(KeyOf(prod), <<lkM, lkP>>, TRUE)
          ELSE Resolved(KeyOf(parentProduct.node), <<lkM, lkP>>, FALSE)

\* variant of findProductRoot that probes the parent key as a product first
\* and as a model only when that lookup fails
RECURSIVE findProductRoot_ProductFirst(_, _)
findProductRoot_ProductFirst(prod, F) ==
  IF ~HasParent(prod)
  THEN Resolved(KeyOf(prod), <<>>, FALSE)
  ELSE LET parentProduct == FindByIdentifier(prod.parent, F, "resolve")
           lkP == Call("FindByIdentifier", prod.parent, ~parentProduct.err)
       IN IF ~parentProduct.err
          THEN LET up == findProductRoot_ProductFirst(parentProduct.node, F)
               IN Resolved(up.root, <<lkP>> \o up.lookups, up.orphan)
          ELSE LET parentModel == FindModelByCode(prod.parent, F, "resolve")
                   lkM == Call("FindModelByCode", prod.parent, ~parentModel.err)
               IN IF parentModel.err
                  THEN Resolved(KeyOf(prod), <<lkP, lkM>>, TRUE)
                  ELSE LET up == findModelRoot(parentModel.node, F)
                       IN Resolved(up.root, <<lkP, lkM>> \o up.lookups, up.orphan)

RECURSIVE findProductRoot(_, _)
findProductRoot(prod, F) ==
  IF ~HasParent(prod)
  THEN Resolved(KeyOf(prod), <<>>, FALSE)
  ELSE LET parentModel == FindModelByCode(prod.parent, F, "resolve")
           lkM == Call("FindModelByCode", prod.parent, ~parentModel.err)
       IN IF ~parentModel.err
          THEN LET up == findModelRoot(parentModel.node, F)
               IN Resolved(up.root, <<lkM>> \o up.lookups, up.orphan)
          ELSE LET parentProduct == FindByIdentifier(prod.parent, F, "resolve")
                   lkP == Call("FindByIdentifier", prod.parent, ~parentProduct.err)
               IN IF parentProduct.err
                  THEN Resolved(KeyOf(prod), <<lkM, lkP>>, TRUE)
                  ELSE LET up == findProductRoot(parentProduct.node, F)
                       IN Resolved(up.root, <<lkM, lkP>> \o up.lookups, up.orphan)

(***************************************************************************)
(* Hierarchy copier (syncing.Service).  A partial result is the Go         *)
(* *SyncResult being filled in, together with the collaborator calls made  *)
(* so far (calls), in call order, and the error the function returns       *)
(* (err = Nil for a nil error).                                            *)
(***************************************************************************)
Partial(models, products, calls, err) ==
  [ModelsSynced |-> models, ProductsSynced |-> products, calls |-> calls, err |-> err]

\* variant of saveProducts that leaves the loop at the first failed Save
RECURSIVE saveProducts_StopAtFailure(_, _, _)
saveProducts_StopAtFailure(products, F, res) ==
  IF products = <<>> THEN res
  ELSE LET prod == Head(products)
           identifier == KeyOf(prod)
           ok == Save(identifier, F)
           tried == Partial(res.ModelsSynced,
                            res.ProductsSynced + (IF ok THEN 1 ELSE 0),
                            Append(res.calls, Call("Save", identifier, ok)),
                            res.err)
       IN IF identifier = "" THEN saveProducts_StopAtFailure(Tail(products), F, res)
          ELSE IF ~ok THEN tried
          ELSE saveProducts_StopAtFailure(Tail(products), F, tried)

\* the loop "for _, prod := range products" of syncChildProducts and of
\* syncVariantProducts: a product without identifier is skipped, a failed
\* Save is logged and skipped, a successful Save is counted
RECURSIVE saveProducts(_, _, _)
saveProducts(products, F, res) ==
  IF products = <<>> THEN res
  ELSE LET prod == Head(products)
           identifier == KeyOf(prod)
           ok == Save(identifier, F)
           next == IF identifier = "" THEN res
                   ELSE Partial(res.ModelsSynced,
                                res.ProductsSynced + (IF ok THEN 1 ELSE 0),
                                Append(res.calls, Call("Save", identifier, ok)),
                                res.err)
       IN saveProducts(Tail(products), F, next)

\* syncChildProducts
syncChildProducts(parentCode, F, res) ==
  LET products == FindProductsByParent(parentCode, F)
      listed == Append(res.calls, Call("FindProductsByParent", parentCode, ~products.err))
  IN IF products.err
     THEN Partial(res.ModelsSynced, res.ProductsSynced, listed,
                  "error fetching child products")
     ELSE saveProducts(products.nodes, F,
                       Partial(res.ModelsSynced, res.ProductsSynced, listed, Nil))

\* the loop "for _, model := range models" of syncChildModels
RECURSIVE saveModels(_, _, _)
saveModels(models, F, res) ==
  IF models = <<>> THEN res
  ELSE LET model == Head(models)
           code == KeyOf(model)
           ok == SaveModel(code, F)
           next == IF code = "" THEN res
                   ELSE Partial(res.ModelsSynced + (IF ok THEN 1 ELSE 0),
                                res.ProductsSynced,
                                Append(res.calls, Call("SaveModel", code, ok)),
                                res.err)
       IN saveModels(Tail(models), F, next)

\* syncChildModels
syncChildModels(parentCode, F, res) ==
  LET models == FindModelsByParent(parentCode, F, "childModels")
      listed == Append(res.calls, Call("FindModelsByParent", parentCode, ~models.err))
  IN IF models.err
     THEN Partial(res.ModelsSynced, res.ProductsSynced, listed,
                  "error fetching child models")
     ELSE saveModels(models.nodes, F,
                     Partial(res.ModelsSynced, res.ProductsSynced, listed, Nil))

\* the loop "for _, model := range models" of syncVariantProducts: the
\* variants of each model are listed and saved; a failed listing skips
\* that model only
RECURSIVE saveVariants(_, _, _)
saveVariants(models, F, res) ==
  IF models = <<>> THEN res
  ELSE LET model == Head(models)
           modelCode == KeyOf(model)
           products == FindProductsByParent(modelCode, F)
           listed == Partial(res.ModelsSynced, res.ProductsSynced,
                             Append(res.calls,
                                    Call("FindProductsByParent", modelCode, ~products.err)),
                             res.err)
           next == IF modelCode = "" THEN res
                   ELSE IF products.err THEN listed
                   ELSE saveProducts(products.nodes, F, listed)
       IN saveVariants(Tail(models), F, next)

\* syncVariantProducts
syncVariantProducts(commonCode, F, res) ==
  LET models == FindModelsByParent(commonCode, F, "variants")
      listed == Append(res.calls, Call("FindModelsByParent", commonCode, ~models.err))
  IN IF models.err
     THEN Partial(res.ModelsSynced, res.ProductsSynced, listed,
                  "error fetching models for variants")
     ELSE saveVariants(models.nodes, F,
                       Partial(res.ModelsSynced, res.ProductsSynced, listed, Nil))

\* what syncing.Service.Sync hands back: a nil result with an error, or the
\* result with TotalSynced and Success set; calls is the record of the
\* collaborator calls of this copy
Returned(res) ==
  IF res.err # Nil
  THEN [result |-> Nil, err |-> res.err, calls |-> res.calls]
  ELSE [result |-> [ModelsSynced |-> res.ModelsSynced,
                    ProductsSynced |-> res.ProductsSynced,
                    TotalSynced |-> res.ModelsSynced + res.ProductsSynced,
                    Success |-> TRUE],
        err |-> Nil, calls |-> res.calls]

\* variant of SyncAsModel that copies the variants before the child models
SyncAsModel_VariantsFirst(commonIdentifier, F, probed) ==
  LET commonModel == FindModelByCode(commonIdentifier, F, "common")
      found == Append(probed, Call("FindModelByCode", commonIdentifier, ~commonModel.err))
      saved == SaveModel(commonIdentifier, F)
      written == Append(found, Call("SaveModel", commonIdentifier, saved))
      variants == syncVariantProducts(commonIdentifier, F, Partial(1, 0, written, Nil))
  IN IF commonModel.err THEN Partial(0, 0, found, "common not found as product or model")
     ELSE IF ~saved THEN Partial(0, 0, written, "error saving common model")
     ELSE IF variants.err # Nil THEN variants
     ELSE syncChildModels(commonIdentifier, F, variants)

\* variant of SyncAsModel that goes on to the children after a rejected
\* write of the common model
SyncAsModel_IgnoreSaveError(commonIdentifier, F, probed) ==
  LET commonModel == FindModelByCode(commonIdentifier, F, "common")
      found == Append(probed, Call("FindModelByCode", commonIdentifier, ~commonModel.err))
      saved == SaveModel(commonIdentifier, F)
      written == Append(found, Call("SaveModel", commonIdentifier, saved))
      children == syncChildModels(commonIdentifier, F,
                                  Partial(IF saved THEN 1 ELSE 0, 0, written, Nil))
  IN IF commonModel.err THEN Partial(0, 0, found, "common not found as product or model")
     ELSE IF children.err # Nil THEN children
     ELSE syncVariantProducts(commonIdentifier, F, children)

\* variant of SyncAsModel that issues the write of the common model before
\* it looks at the outcome of the model lookup
SyncAsModel_SaveBeforeLookup(commonIdentifier, F, probed) ==
  LET commonModel == FindModelByCode(commonIdentifier, F, "common")
      found == Append(probed, Call("FindModelByCode", commonIdentifier, ~commonModel.err))
      saved == SaveModel(commonIdentifier, F)
      written == Append(found, Call("SaveModel", commonIdentifier, saved))
      children == syncChildModels(commonIdentifier, F, Partial(1, 0, written, Nil))
  IN IF commonModel.err THEN Partial(0, 0, written, "common not found as product or model")
     ELSE IF ~saved THEN Partial(0, 0, written, "error saving common model")
     ELSE IF children.err # Nil THEN children
     ELSE syncVariantProducts(commonIdentifier, F, children)

\* the configurable branch of syncing.Service.Sync (the key is not a product)
SyncAsModel(commonIdentifier, F, probed) ==
  LET commonModel == FindModelByCode(commonIdentifier, F, "common")
      found == Append(probed, Call("FindModelByCode", commonIdentifier, ~commonModel.err))
      saved == SaveModel(commonIdentifier, F)
      written == Append(found, Call("SaveModel", commonIdentifier, saved))
      children == syncChildModels(commonIdentifier, F, Partial(1, 0, written, Nil))
  IN IF commonModel.err THEN Partial(0, 0, found, "common not found as product or model")
     ELSE IF ~saved THEN Partial(0, 0, written, "error saving common model")
     ELSE IF children.err # Nil THEN children
     ELSE syncVariantProducts(commonIdentifier, F, children)

\* variant of Sync that copies the child products before the common product
Sync_ChildrenFirst(commonIdentifier, F) ==
  LET commonProduct == FindByIdentifier(commonIdentifier, F, "common")
      probed == <<Call("FindByIdentifier", commonIdentifier, ~commonProduct.err)>>
      children == syncChildProducts(commonIdentifier, F, Partial(0, 0, probed, Nil))
      saved == Save(commonIdentifier, F)
      written == Append(children.calls, Call("Save", commonIdentifier, saved))
  IN Returned(
       IF ~commonProduct.err
       THEN IF children.err # Nil THEN children
            ELSE IF ~saved
            THEN Partial(0, 0, written, "error saving common product")
            ELSE Partial(children.ModelsSynced, children.ProductsSynced + 1, written, Nil)
       ELSE SyncAsModel(commonIdentifier, F, probed))

\* syncing.Service.Sync
Sync(commonIdentifier, F) ==
  LET commonProduct == FindByIdentifier(commonIdentifier, F, "common")
      probed == <<Call("FindByIdentifier", commonIdentifier, ~commonProduct.err)>>
      saved == Save(commonIdentifier, F)
      written == Append(probed, Call("Save", commonIdentifier, saved))
  IN Returned(
       IF ~commonProduct.err
       THEN IF ~saved THEN Partial(0, 0, written, "error saving common product")
            ELSE syncChildProducts(commonIdentifier, F, Partial(0, 1, written, Nil))
       ELSE SyncAsModel(commonIdentifier, F, probed))

(***************************************************************************)
(* Sync orchestrator (syncing_since.Service.Sync).                         *)
(*   phase              where the run is: "Idle" before Sync is called,    *)
(*                      "StreamingGroups" in the models stream,            *)
(*                      "StreamingLeaves" in the products stream, "Done"   *)
(*                      after Sync has returned                            *)
(*   modelFeed,         the nodes the two change feeds yield in this run   *)
(*   productFeed                                                           *)
(*   idx                the next node of the current feed                  *)
(*   syncedHierarchies  the map of the code, as the set of its keys        *)
(*   result             the *SyncResult (Nil before the run and when Sync  *)
(*                      returns an error)                                  *)
(*   retErr             the error Sync returns (Nil for nil)               *)
(*   handled            history: one record per feed node handled so far   *)
(*   faultsLeft         collaborator failures the environment may still    *)
(*                      inject in this run                                 *)
(***************************************************************************)
batchSize == 100

NodeError(key, msg) == [key |-> key, msg |-> msg]

Handled(node, res, outcome, copy) ==
  [node |-> node, root |-> res.root, lookups |-> res.lookups, orphan |-> res.orphan,
   outcome |-> outcome, copy |-> copy]

NoResolution == Resolved(Nil, <<>>, FALSE)

Feeds(S, n) == UNION {[1..k -> S] : k \in 0..n}

Init ==
  /\ phase = "Idle"
  /\ modelFeed \in Feeds(FeedModels, MaxModelFeed)
  /\ productFeed \in Feeds(FeedProducts, MaxProductFeed)
  /\ idx = 1
  /\ syncedHierarchies = {}
  /\ result = Nil
  /\ retErr = Nil
  /\ handled = <<>>
  /\ faultsLeft = MaxFaults
  /\ NoResolve /\ NoWalk /\ NoDest /\ NoStream /\ NoRuns /\ NoBus /\ NoWeb

\* variant of StartSync in which the dedup map outlives the call (a field
\* of the Service instead of a local of Sync)
StartSync_KeepSet ==
  /\ phase = "Idle"
  /\ phase' = "StreamingGroups"
  /\ result' = [ModelsSynced |-> 0, ProductsSynced |-> 0, TotalSynced |-> 0,
                Errors |-> <<>>, Success |-> TRUE]
  /\ idx' = 1
  /\ UNCHANGED <<modelFeed, productFeed, retErr, handled, faultsLeft,
                 syncedHierarchies>>

\* Sync is called: fresh result and dedup map, the models stream starts
StartSync ==
  /\ phase = "Idle"
  /\ phase' = "StreamingGroups"
  /\ result' = [ModelsSynced |-> 0, ProductsSynced |-> 0, TotalSynced |-> 0,
                Errors |-> <<>>, Success |-> TRUE]
  /\ syncedHierarchies' = {}
  /\ idx' = 1
  /\ UNCHANGED <<modelFeed, productFeed, retErr, handled, faultsLeft>>

\* variant of HandleNode that never marks a copied root as synced
HandleNode_NoMark(node, res, F, malformedMsg) ==
  LET copy == Sync(res.root, F)
  IN /\ idx' = idx + 1
     /\ faultsLeft' = faultsLeft - Cardinality(F)
     /\ UNCHANGED <<phase, modelFeed, productFeed, retErr, syncedHierarchies>>
     /\ IF node.key = Absent
        THEN /\ result' = [result EXCEPT !.Errors = Append(@, NodeError(Nil, malformedMsg))]
             /\ handled' = Append(handled, Handled(node, NoResolution, "malformed", Nil))
        ELSE IF res.root \in syncedHierarchies
        THEN /\ handled' = Append(handled, Handled(node, res, "skipped", Nil))
             /\ UNCHANGED result
        ELSE IF copy.err # Nil
        THEN /\ result' = [result EXCEPT !.Errors = Append(@, NodeError(res.root, copy.err))]
             /\ handled' = Append(handled, Handled(node, res, "copied", copy))
        ELSE /\ result' = [result EXCEPT
                             !.ModelsSynced = @ + copy.result.ModelsSynced,
                             !.ProductsSynced = @ + copy.result.ProductsSynced]
             /\ handled' = Append(handled, Handled(node, res, "copied", copy))

\* variant of HandleNode whose callback hands a failed copy back to the
\* stream as its error, which ends the run
HandleNode_AbortOnCopyError(node, res, F, malformedMsg) ==
  LET copy == Sync(res.root, F)
  IN /\ idx' = idx + 1
     /\ faultsLeft' = faultsLeft - Cardinality(F)
     /\ UNCHANGED <<modelFeed, productFeed>>
     /\ IF node.key = Absent
        THEN /\ result' = [result EXCEPT !.Errors = Append(@, NodeError(Nil, malformedMsg))]
             /\ handled' = Append(handled, Handled(node, NoResolution, "malformed", Nil))
             /\ UNCHANGED <<syncedHierarchies, phase, retErr>>
        ELSE IF res.root \in syncedHierarchies
        THEN /\ handled' = Append(handled, Handled(node, res, "skipped", Nil))
             /\ UNCHANGED <<result, syncedHierarchies, phase, retErr>>
        ELSE IF copy.err # Nil
        THEN /\ result' = Nil
             /\ retErr' = copy.err
             /\ phase' = "Done"
             /\ handled' = Append(handled, Handled(node, res, "copied", copy))
             /\ UNCHANGED syncedHierarchies
        ELSE /\ syncedHierarchies' = syncedHierarchies \cup {res.root}
             /\ result' = [result EXCEPT
                             !.ModelsSynced = @ + copy.result.ModelsSynced,
                             !.ProductsSynced = @ + copy.result.ProductsSynced]
             /\ handled' = Append(handled, Handled(node, res, "copied", copy))
             /\ UNCHANGED <<phase, retErr>>

\* variant of HandleNode without the identity check: a node without a
\* string identity goes on to the resolver and the copier under the key ""
HandleNode_NoIdentityCheck(node, res, F, malformedMsg) ==
  LET copy == Sync(res.root, F)
  IN /\ idx' = idx + 1
     /\ faultsLeft' = faultsLeft - Cardinality(F)
     /\ UNCHANGED <<phase, modelFeed, productFeed, retErr>>
     /\ IF res.root \in syncedHierarchies
        THEN /\ handled' = Append(handled, Handled(node, res, "skipped", Nil))
             /\ UNCHANGED <<result, syncedHierarchies>>
        ELSE IF copy.err # Nil
        THEN /\ result' = [result EXCEPT !.Errors = Append(@, NodeError(res.root, copy.err))]
             /\ handled' = Append(handled, Handled(node, res, "copied", copy))
             /\ UNCHANGED syncedHierarchies
        ELSE /\ syncedHierarchies' = syncedHierarchies \cup {res.root}
             /\ result' = [result EXCEPT
                             !.ModelsSynced = @ + copy.result.ModelsSynced,
                             !.ProductsSynced = @ + copy.result.ProductsSynced]
             /\ handled' = Append(handled, Handled(node, res, "copied", copy))

\* the body of the two "for ... range" loops of the stream callbacks, for
\* one node: identity check, root resolution, dedup test, hierarchy copy,
\* merge of the outcome
\* a callback that marks the root as synced although its copy failed
HandleNode_MarkOnError(node, res, F, malformedMsg) ==
  LET copy == Sync(res.root, F)
  IN /\ idx' = idx + 1
     /\ faultsLeft' = faultsLeft - Cardinality(F)
     /\ UNCHANGED <<phase, modelFeed, productFeed, retErr>>
     /\ IF node.key = Absent
        THEN /\ result' = [result EXCEPT !.Errors = Append(@, NodeError(Nil, malformedMsg))]
             /\ handled' = Append(handled, Handled(node, NoResolution, "malformed", Nil))
             /\ UNCHANGED syncedHierarchies
        ELSE IF res.root \in syncedHierarchies
        THEN /\ handled' = Append(handled, Handled(node, res, "skipped", Nil))
             /\ UNCHANGED <<result, syncedHierarchies>>
        ELSE IF copy.err # Nil
        THEN /\ result' = [result EXCEPT !.Errors = Append(@, NodeError(res.root, copy.err))]
             /\ handled' = Append(handled, Handled(node, res, "copied", copy))
             /\ syncedHierarchies' = syncedHierarchies \cup {res.root}
        ELSE /\ syncedHierarchies' = syncedHierarchies \cup {res.root}
             /\ result' = [result EXCEPT
                             !.ModelsSynced = @ + copy.result.ModelsSynced,
                             !.ProductsSynced = @ + copy.result.ProductsSynced]
             /\ handled' = Append(handled, Handled(node, res, "copied", copy))

\* a callback that counts the writes a failed copy had made
HandleNode_CountFailedCopy(node, res, F, malformedMsg) ==
  LET copy == Sync(res.root, F)
  IN /\ idx' = idx + 1
     /\ faultsLeft' = faultsLeft - Cardinality(F)
     /\ UNCHANGED <<phase, modelFeed, productFeed, retErr>>
     /\ IF node.key = Absent
        THEN /\ result' = [result EXCEPT !.Errors = Append(@, NodeError(Nil, malformedMsg))]
             /\ handled' = Append(handled, Handled(node, NoResolution, "malformed", Nil))
             /\ UNCHANGED syncedHierarchies
        ELSE IF res.root \in syncedHierarchies
        THEN /\ handled' = Append(handled, Handled(node, res, "skipped", Nil))
             /\ UNCHANGED <<result, syncedHierarchies>>
        ELSE IF copy.err # Nil
        THEN /\ result' = [result EXCEPT
                             !.Errors = Append(@, NodeError(res.root, copy.err)),
                             !.ModelsSynced = @ + Cardinality(
                                {j \in DOMAIN copy.calls :
                                   copy.calls[j].op = "SaveModel" /\ copy.calls[j].ok}),
                             !.ProductsSynced = @ + Cardinality(
                                {j \in DOMAIN copy.calls :
                                   copy.calls[j].op = "Save" /\ copy.calls[j].ok})]
             /\ handled' = Append(handled, Handled(node, res, "copied", copy))
             /\ UNCHANGED syncedHierarchies
        ELSE /\ syncedHierarchies' = syncedHierarchies \cup {res.root}
             /\ result' = [result EXCEPT
                             !.ModelsSynced = @ + copy.result.ModelsSynced,
                             !.ProductsSynced = @ + copy.result.ProductsSynced]
             /\ handled' = Append(handled, Handled(node, res, "copied", copy))

HandleNode(node, res, F, malformedMsg) ==
  LET copy == Sync(res.root, F)
  IN /\ idx' = idx + 1
     /\ faultsLeft' = faultsLeft - Cardinality(F)
     /\ UNCHANGED <<phase, modelFeed, productFeed, retErr>>
     /\ IF node.key = Absent
        THEN /\ result' = [result EXCEPT !.Errors = Append(@, NodeError(Nil, malformedMsg))]
             /\ handled' = Append(handled, Handled(node, NoResolution, "malformed", Nil))
             /\ UNCHANGED syncedHierarchies
        ELSE IF res.root \in syncedHierarchies
        THEN /\ handled' = Append(handled, Handled(node, res, "skipped", Nil))
             /\ UNCHANGED <<result, syncedHierarchies>>
        ELSE IF copy.err # Nil
        THEN /\ result' = [result EXCEPT !.Errors = Append(@, NodeError(res.root, copy.err))]
             /\ handled' = Append(handled, Handled(node, res, "copied", copy))
             /\ UNCHANGED syncedHierarchies
        ELSE /\ syncedHierarchies' = syncedHierarchies \cup {res.root}
             /\ result' = [result EXCEPT
                             !.ModelsSynced = @ + copy.result.ModelsSynced,
                             !.ProductsSynced = @ + copy.result.ProductsSynced]
             /\ handled' = Append(handled, Handled(node, res, "copied", copy))

\* one model of the changed-models stream
HandleModel ==
  /\ phase = "StreamingGroups"
  /\ idx <= Len(modelFeed)
  /\ \E F \in SubsetsUpTo(FaultPoints, faultsLeft) :
       HandleNode(modelFeed[idx], findModelRoot(modelFeed[idx], F), F,
                  "could not extract model code")

\* one product of the changed-products stream
HandleProduct ==
  /\ phase = "StreamingLeaves"
  /\ idx <= Len(productFeed)
  /\ \E F \in SubsetsUpTo(FaultPoints, faultsLeft) :
       HandleNode(productFeed[idx], findProductRoot(productFeed[idx], F), F,
                  "could not extract product identifier")

\* variant of ModelsStreamed that starts the products stream while models
\* of the feed are still to be handled
ModelsStreamed_Early ==
  /\ phase = "StreamingGroups"
  /\ idx <= Len(modelFeed) + 1
  /\ phase' = "StreamingLeaves"
  /\ idx' = 1
  /\ UNCHANGED <<modelFeed, productFeed, syncedHierarchies, result, retErr,
                 handled, faultsLeft>>

\* StreamModelsUpdatedSince returned nil: the products stream starts
ModelsStreamed ==
  /\ phase = "StreamingGroups"
  /\ idx = Len(modelFeed) + 1
  /\ phase' = "StreamingLeaves"
  /\ idx' = 1
  /\ UNCHANGED <<modelFeed, productFeed, syncedHierarchies, result, retErr,
                 handled, faultsLeft>>

\* a stream cannot fetch a page: Sync returns (nil, error) at once
StreamFails ==
  /\ phase \in {"StreamingGroups", "StreamingLeaves"}
  /\ (idx - 1) % batchSize = 0
  /\ idx = 1 \/ idx <= Len(IF phase = "StreamingGroups" THEN modelFeed ELSE productFeed)
  /\ faultsLeft > 0
  /\ faultsLeft' = faultsLeft - 1
  /\ phase' = "Done"
  /\ result' = Nil
  /\ retErr' = IF phase = "StreamingGroups" THEN "error streaming updated models"
                                           ELSE "error streaming updated products"
  /\ UNCHANGED <<modelFeed, productFeed, idx, syncedHierarchies, handled>>

\* variant of FinishSync that does not compute TotalSynced
FinishSync_NoTotal ==
  /\ phase = "StreamingLeaves"
  /\ idx = Len(productFeed) + 1
  /\ phase' = "Done"
  /\ result' = [result EXCEPT !.Success = (Len(result.Errors) = 0)]
  /\ UNCHANGED <<modelFeed, productFeed, idx, syncedHierarchies, retErr,
                 handled, faultsLeft>>

\* variant of FinishSync that leaves Success as Sync initialised it
FinishSync_KeepSuccess ==
  /\ phase = "StreamingLeaves"
  /\ idx = Len(productFeed) + 1
  /\ phase' = "Done"
  /\ result' = [result EXCEPT
                  !.TotalSynced = result.ModelsSynced + result.ProductsSynced]
  /\ UNCHANGED <<modelFeed, productFeed, idx, syncedHierarchies, retErr,
                 handled, faultsLeft>>

\* StreamProductsUpdatedSince returned nil: totals, success flag, return
FinishSync ==
  /\ phase = "StreamingLeaves"
  /\ idx = Len(productFeed) + 1
  /\ phase' = "Done"
  /\ result' = [result EXCEPT
                  !.TotalSynced = result.ModelsSynced + result.ProductsSynced,
                  !.Success = (Len(result.Errors) = 0)]
  /\ UNCHANGED <<modelFeed, productFeed, idx, syncedHierarchies, retErr,
                 handled, faultsLeft>>

Next ==
  \/ StartSync /\ UNCHANGED outsideOrch
  \/ HandleModel /\ UNCHANGED outsideOrch
  \/ ModelsStreamed /\ UNCHANGED outsideOrch
  \/ HandleProduct /\ UNCHANGED outsideOrch
  \/ StreamFails /\ UNCHANGED outsideOrch
  \/ FinishSync /\ UNCHANGED outsideOrch

Spec == Init /\ [][Next]_vars

(***************************************************************************)
(* The resolver on its own: one call of findModelRoot / findProductRoot on *)
(* a node of the catalogue, under a set of failing lookups.                *)
(*   rNode    the node handed to the resolver                              *)
(*   rFaults  the lookups that fail during the call                        *)
(*   rOut     empty before the call, then the set of its one result        *)
(***************************************************************************)
\* nodes whose parent field is the string "null"
NullParented == {Node("model", "M0", "null"), Node("product", "P0", "null")}

ResolveInputs == Source \cup NullParented

InitResolve ==
  /\ rNode \in ResolveInputs
  /\ rFaults \in SubsetsUpTo(ResolveFaultPoints, MaxResolveFaults)
  /\ rOut = {}
  /\ NoOrch /\ NoWalk /\ NoDest /\ NoStream /\ NoRuns /\ NoBus /\ NoWeb

ResolveModel ==
  /\ rOut = {}
  /\ rNode.kind = "model"
  /\ rOut' = {findModelRoot(rNode, rFaults)}
  /\ UNCHANGED <<rNode, rFaults>>

ResolveProduct ==
  /\ rOut = {}
  /\ rNode.kind = "product"
  /\ rOut' = {findProductRoot(rNode, rFaults)}
  /\ UNCHANGED <<rNode, rFaults>>

NextResolve ==
  \/ ResolveModel /\ UNCHANGED outsideResolve
  \/ ResolveProduct /\ UNCHANGED outsideResolve

SpecResolve == InitResolve /\ [][NextResolve]_vars

(***************************************************************************)
(* The resolver hop by hop: each action is one invocation of findModelRoot *)
(* or findProductRoot, which either returns a root or calls itself on the  *)
(* parent it found.  The catalogue of this specification also holds nodes  *)
(* whose parent chain is a cycle.                                          *)
(*   wStart   the node handed to the resolver                              *)
(*   wNode    the node of the current invocation                           *)
(*   wFaults  the lookups that fail during the walk                        *)
(*   wHops    the parents followed so far (depth of the recursion)         *)
(*   wRoot    empty while the walk goes on, then the set of its one result *)
(***************************************************************************)
\* deepest recursion the model follows
MaxWalkHops == 52
\* lookups that fail during one walk
MaxWalkFaults == 1

\* two models that are each other's parent, two such products, and a
\* product below the cyclic models
CyclicSeq ==
  << Node("model", "A", "B"),
     Node("model", "B", "A"),
     Node("product", "PA", "PB"),
     Node("product", "PB", "PA"),
     Node("product", "PC", "A") >>

WalkSource == Source \cup Range(CyclicSeq)

WalkFaultPoints ==
  {Fault(op, "resolve", k) : op \in {"FindModelByCode", "FindByIdentifier"},
                             k \in {n.parent : n \in WalkSource}
                                     \cap {n.key : n \in WalkSource}}

\* FindModelByCode / FindByIdentifier over the catalogue with cycles
WalkFindModelByCode(code, F) ==
  LET hit == {n \in WalkSource : n.kind = "model" /\ n.key = code}
  IN IF hit = {} \/ Fault("FindModelByCode", "resolve", code) \in F
     THEN [err |-> TRUE, node |-> Nil]
     ELSE [err |-> FALSE, node |-> CHOOSE n \in hit : TRUE]

WalkFindByIdentifier(identifier, F) ==
  LET hit == {n \in WalkSource : n.kind = "product" /\ n.key = identifier}
  IN IF hit = {} \/ Fault("FindByIdentifier", "resolve", identifier) \in F
     THEN [err |-> TRUE, node |-> Nil]
     ELSE [err |-> FALSE, node |-> CHOOSE n \in hit : TRUE]

InitWalk ==
  /\ wStart \in WalkSource
  /\ wNode = wStart
  /\ wFaults \in SubsetsUpTo(WalkFaultPoints, MaxWalkFaults)
  /\ wHops = 0
  /\ wRoot = {}
  /\ NoOrch /\ NoResolve /\ NoDest /\ NoStream /\ NoRuns /\ NoBus /\ NoWeb

\* one invocation of findModelRoot
WalkModelHop ==
  /\ wRoot = {} /\ wNode.kind = "model" /\ wHops < MaxWalkHops
  /\ LET parentModel == WalkFindModelByCode(wNode.parent, wFaults)
     IN IF ~HasParent(wNode) \/ parentModel.err
        THEN wRoot' = {KeyOf(wNode)} /\ UNCHANGED <<wNode, wHops>>
        ELSE wNode' = parentModel.node /\ wHops' = wHops + 1 /\ UNCHANGED wRoot
  /\ UNCHANGED <<wStart, wFaults>>

\* one invocation of findProductRoot
WalkProductHop ==
  /\ wRoot = {} /\ wNode.kind = "product" /\ wHops < MaxWalkHops
  /\ LET parentModel == WalkFindModelByCode(wNode.parent, wFaults)
         parentProduct == WalkFindByIdentifier(wNode.parent, wFaults)
     IN IF ~HasParent(wNode) \/ (parentModel.err /\ parentProduct.err)
        THEN wRoot' = {KeyOf(wNode)} /\ UNCHANGED <<wNode, wHops>>
        ELSE /\ wNode' = IF ~parentModel.err THEN parentModel.node
                                             ELSE parentProduct.node
             /\ wHops' = wHops + 1
             /\ UNCHANGED wRoot
  /\ UNCHANGED <<wStart, wFaults>>

NextWalk ==
  \/ WalkModelHop /\ UNCHANGED outsideWalk
  \/ WalkProductHop /\ UNCHANGED outsideWalk

SpecWalk == InitWalk /\ [][NextWalk]_vars

(***************************************************************************)
(* Vocabulary of the properties                                            *)
(***************************************************************************)
\* the records of handled that invoked the hierarchy copier
CopyIdx == {i \in DOMAIN handled : handled[i].outcome = "copied"}

IsWrite(c) == c.op \in {"Save", "SaveModel"}

\* the destination writes of one copy, in the order they were issued
WritesOf(copy) == SelectSeq(copy.calls, IsWrite)

\* the source node a destination write carries
WrittenNode(w) ==
  CHOOSE n \in Source :
    n.key = w.key /\ n.kind = (IF w.op = "Save" THEN "product" ELSE "model")

\* the destination writes of the run so far, in order, each with the index
\* in handled of the copy that issued it and its position in that copy
RECURSIVE RunWritesFrom(_)
RunWritesFrom(i) ==
  IF i > Len(handled) THEN <<>>
  ELSE (IF handled[i].outcome = "copied"
        THEN LET ws == WritesOf(handled[i].copy)
             IN [j \in 1..Len(ws) |->
                   [op |-> ws[j].op, key |-> ws[j].key, ok |-> ws[j].ok,
                    at |-> i, pos |-> j]]
        ELSE <<>>) \o RunWritesFrom(i + 1)

RunWrites == RunWritesFrom(1)

\* the run has returned a result (no stream failure)
Returned_OK == phase = "Done" /\ retErr = Nil

\* no collaborator call has failed by injection in this run
NoFaultInjected == faultsLeft = MaxFaults

(***************************************************************************)
(* The destination under repeated copies of one root.  A payload is the    *)
(* string-keyed map of a node as a function from field names to values;    *)
(* the destination is a function from <<kind, key>> to the payload stored  *)
(* under that key.                                                         *)
(*   dRoot       the root handed to syncing.Service.Sync                   *)
(*   dest        the destination catalogue                                 *)
(*   dCopies     the copies of dRoot made so far                           *)
(*   dPrev       history: the destination before the last copy             *)
(*   dCalls      history: the collaborator calls of the last copy, with    *)
(*               their outcomes                                            *)
(*   dPrevCalls  history: the calls of the copy before the last            *)
(***************************************************************************)
\* copies of the same root in a row
MaxCopies == 2
\* source reads that fail during one copy
MaxReadFaults == 1

\* a JSON null
Null == "<null>"

\* the node as the source returns it: identity, parent (null when the node
\* has none), attribute values, and the metadata the source adds
PayloadOf(n) ==
  [f \in {IF n.kind = "product" THEN "identifier" ELSE "code",
          "parent", "values", "_links", "created", "updated"} |->
     CASE f \in {"identifier", "code"} -> n.key
       [] f = "parent" -> (IF n.parent = Absent THEN Null ELSE n.parent)
       [] f = "values" -> "values of " \o n.key
       [] f = "_links" -> "/api/rest/v1/" \o n.key
       [] f = "created" -> "created " \o n.key
       [] f = "updated" -> "updated " \o n.key]

\* variant of cleanProduct that lets the field "updated" through
cleanProduct_KeepUpdated(productData) ==
  LET excludedFields == {"_links", "created"}
  IN [key \in {k \in DOMAIN productData :
                 k \notin excludedFields /\ productData[k] # Null} |->
        productData[key]]

\* cleanProduct: the fields sent in a write
cleanProduct(productData) ==
  LET excludedFields == {"_links", "created", "updated"}
  IN [key \in {k \in DOMAIN productData :
                 k \notin excludedFields /\ productData[k] # Null} |->
        productData[key]]

\* cleanProductModel
cleanProductModel(model) ==
  LET excludedFields == {"_links", "created", "updated"}
  IN [key \in {k \in DOMAIN model :
                 k \notin excludedFields /\ model[k] # Null} |->
        model[key]]

\* PATCH of the resource at (kind, key): it is created when the destination
\* has none, else the fields sent replace those stored
Patch(d, kind, key, sent) ==
  LET at == <<kind, key>>
      stored == IF at \in DOMAIN d
                THEN [f \in DOMAIN d[at] \cup DOMAIN sent |->
                        IF f \in DOMAIN sent THEN sent[f] ELSE d[at][f]]
                ELSE sent
  IN [k \in DOMAIN d \cup {at} |-> IF k = at THEN stored ELSE d[k]]

\* PatchProduct / PatchProductModel (DestProductRepository.Save / SaveModel)
PatchProduct(d, identifier, productData) ==
  Patch(d, "product", identifier, cleanProduct(productData))

PatchProductModel(d, code, model) ==
  Patch(d, "model", code, cleanProductModel(model))

\* the destination after the writes ws of a copy, in order
RECURSIVE ApplyWrites(_, _)
ApplyWrites(d, ws) ==
  IF ws = <<>> THEN d
  ELSE LET w == Head(ws)
           n == WrittenNode(w)
           after == IF ~w.ok THEN d
                    ELSE IF w.op = "Save" THEN PatchProduct(d, w.key, PayloadOf(n))
                    ELSE PatchProductModel(d, w.key, PayloadOf(n))
       IN ApplyWrites(after, Tail(ws))

\* the source reads a copy may find failing
ReadFaultPoints == {f \in CopyFaultPoints : f.op \notin {"Save", "SaveModel"}}

\* the roots copied: tops of the three trees, a model and a product inside
CopyRoots == {"R", "Q", "S", "G1", "C"}

\* destinations the first copy may meet: empty, or holding an older state
\* of two nodes and a product the source no longer has
StaleDest ==
  Patch(Patch(Patch(<<>>, "product", "L1",
                    [identifier |-> "L1", parent |-> "G2", label |-> "old"]),
              "model", "R", [code |-> "R", values |-> "old values"]),
        "product", "GONE", [identifier |-> "GONE"])

InitDest ==
  /\ dRoot \in CopyRoots
  /\ dest \in {<<>>, StaleDest}
  /\ dPrev = dest
  /\ dCopies = 0
  /\ dCalls = <<>> /\ dPrevCalls = <<>>
  /\ NoOrch /\ NoResolve /\ NoWalk /\ NoStream /\ NoRuns /\ NoBus /\ NoWeb

\* one call of syncing.Service.Sync(dRoot) whose writes all succeed
CopyRoot ==
  /\ dCopies < MaxCopies
  /\ \E F \in SubsetsUpTo(ReadFaultPoints, MaxReadFaults) :
       LET copy == Sync(dRoot, F)
       IN /\ dest' = ApplyWrites(dest, WritesOf(copy))
          /\ dCalls' = copy.calls
  /\ dPrev' = dest
  /\ dPrevCalls' = dCalls
  /\ dCopies' = dCopies + 1
  /\ UNCHANGED dRoot

NextDest == CopyRoot /\ UNCHANGED outsideDest

SpecDest == InitDest /\ [][NextDest]_vars

(***************************************************************************)
(* The two change streams and the callback Sync hands them, node by node.  *)
(* A node of a stream is its position in the change set of that stream; a  *)
(* page is the set of the nodes it holds.                                  *)
(*   sKind          the stream that runs: "models", then "products", then  *)
(*                  "done"                                                 *)
(*   sSizes         the number of changed nodes of each stream             *)
(*   sFetched       the nodes of the current stream fetched so far         *)
(*   sPagesFetched  the pages of the current stream fetched so far         *)
(*   sPages         the pages the stream holds                             *)
(*   sInVisit       the callback is running on the page                    *)
(*   sPos           the nodes of the page the callback has handled         *)
(*   sVisits        the calls of the callback by the current stream        *)
(*   sKept          the nodes the orchestrator holds on to                 *)
(***************************************************************************)
\* largest change set of one stream
MaxStreamNodes == 201

\* change sets around the page boundaries
StreamSizes ==
  {n \in {0, 1, batchSize - 1, batchSize, batchSize + 1, 2 * batchSize,
          MaxStreamNodes} : n <= MaxStreamNodes}

InitStream ==
  /\ sKind = "models"
  /\ sSizes \in [{"models", "products"} -> StreamSizes]
  /\ sFetched = 0 /\ sPagesFetched = 0
  /\ sPages = {}
  /\ sInVisit = FALSE /\ sPos = 0 /\ sVisits = 0
  /\ sKept = {}
  /\ NoOrch /\ NoResolve /\ NoWalk /\ NoDest /\ NoRuns /\ NoBus /\ NoWeb

\* the page the stream holds
ThePage == CHOOSE pg \in sPages : TRUE

\* the stream fetches the next page: at most batchSize nodes
FetchPage ==
  /\ sKind \in {"models", "products"}
  /\ ~sInVisit /\ sPages = {}
  /\ sFetched < sSizes[sKind]
  /\ LET last == IF sFetched + batchSize < sSizes[sKind]
                 THEN sFetched + batchSize ELSE sSizes[sKind]
     IN /\ sPages' = {(sFetched + 1)..last}
        /\ sFetched' = last
  /\ sPagesFetched' = sPagesFetched + 1
  /\ UNCHANGED <<sKind, sSizes, sInVisit, sPos, sVisits, sKept>>

\* the stream calls the callback on the page it has fetched
VisitStarts ==
  /\ sPages # {} /\ ~sInVisit
  /\ sInVisit' = TRUE
  /\ sPos' = 0
  /\ sVisits' = sVisits + 1
  /\ UNCHANGED <<sKind, sSizes, sFetched, sPagesFetched, sPages, sKept>>

\* variant of VisitNode that holds on to the node it has handled
VisitNode_KeepNode ==
  /\ sInVisit /\ sPos < Cardinality(ThePage)
  /\ sPos' = sPos + 1
  /\ sKept' = sKept \cup {sFetched - Cardinality(ThePage) + sPos + 1}
  /\ UNCHANGED <<sKind, sSizes, sFetched, sPagesFetched, sPages, sInVisit, sVisits>>

\* the callback handles the next node of the page: it keeps strings (root
\* key, error text) and counts, not the node
VisitNode ==
  /\ sInVisit /\ sPos < Cardinality(ThePage)
  /\ sPos' = sPos + 1
  /\ UNCHANGED sKept
  /\ UNCHANGED <<sKind, sSizes, sFetched, sPagesFetched, sPages, sInVisit, sVisits>>

\* the callback returns nil at the end of the page; the stream lets go of
\* the page
VisitReturns ==
  /\ sInVisit /\ sPos = Cardinality(ThePage)
  /\ sInVisit' = FALSE
  /\ sPages' = {}
  /\ sPos' = 0
  /\ UNCHANGED <<sKind, sSizes, sFetched, sPagesFetched, sVisits, sKept>>

\* the source has no more pages: the stream returns nil and Sync goes on
StreamEnds ==
  /\ sKind \in {"models", "products"}
  /\ ~sInVisit /\ sPages = {}
  /\ sFetched = sSizes[sKind]
  /\ sKind' = IF sKind = "models" THEN "products" ELSE "done"
  /\ sFetched' = 0 /\ sPagesFetched' = 0 /\ sVisits' = 0
  /\ UNCHANGED <<sSizes, sPages, sInVisit, sPos, sKept>>

NextStream ==
  \/ FetchPage /\ UNCHANGED outsideStream
  \/ VisitStarts /\ UNCHANGED outsideStream
  \/ VisitNode /\ UNCHANGED outsideStream
  \/ VisitReturns /\ UNCHANGED outsideStream
  \/ StreamEnds /\ UNCHANGED outsideStream

SpecStream == InitStream /\ [][NextStream]_vars

(***************************************************************************)
(* Sync called again on the same Service, with the same timestamp, over    *)
(* the unchanged source: the feeds of the next run are those of the last.  *)
(*   runNo          the invocation of Sync that runs or has returned last  *)
(*   prevHandled    history: the records of handled of the previous        *)
(*                  invocation                                             *)
(*   faultsAtStart  history: faultsLeft when this invocation started       *)
(***************************************************************************)
\* invocations of Sync in a row
MaxRuns == 2
\* collaborator calls that fail during the invocations together
MaxRunFaults == 1

\* the changed nodes of the repeated runs: a model and a product of the
\* tree of R, and a product of the tree of S
RunFeedModels == {n \in FeedModels : n.key = "G1"}
RunFeedProducts == {n \in FeedProducts : n.key \in {"L1", "C"}}

InitRuns ==
  /\ phase = "Idle"
  /\ modelFeed \in Feeds(RunFeedModels, MaxModelFeed)
  /\ productFeed \in Feeds(RunFeedProducts, MaxProductFeed)
  /\ idx = 1
  /\ syncedHierarchies = {}
  /\ result = Nil
  /\ retErr = Nil
  /\ handled = <<>>
  /\ faultsLeft = MaxRunFaults
  /\ runNo = 1 /\ prevHandled = <<>> /\ faultsAtStart = MaxRunFaults
  /\ NoResolve /\ NoWalk /\ NoDest /\ NoStream /\ NoBus /\ NoWeb

\* Sync has returned and is about to be called once more; the locals of the
\* returned call (syncedHierarchies among them) are garbage until then
SyncAgain ==
  /\ phase = "Done"
  /\ runNo < MaxRuns
  /\ phase' = "Idle"
  /\ runNo' = runNo + 1
  /\ prevHandled' = handled
  /\ handled' = <<>>
  /\ idx' = 1
  /\ result' = Nil
  /\ retErr' = Nil
  /\ faultsAtStart' = faultsLeft
  /\ UNCHANGED <<modelFeed, productFeed, syncedHierarchies, faultsLeft>>

NextRuns ==
  \/ Next
  \/ SyncAgain /\ UNCHANGED outsideRun

SpecRuns == InitRuns /\ [][NextRuns]_vars

(***************************************************************************)
(* C1: within one run, for every root key K the hierarchy copier is        *)
(* invoked at most once, whatever the outcome of that copy.                *)
(***************************************************************************)
C1_RootCopiedAtMostOnce ==
  \A k \in Keys : Cardinality({i \in CopyIdx : handled[i].root = k}) <= 1

(***************************************************************************)
(* C2: every destination write of a node that declares a parent is         *)
(* preceded, earlier in the same run, by a write (successful or attempted) *)
(* of that parent -- also when the resolver fell back to an orphaned root. *)
(***************************************************************************)
ParentWrittenBefore(ws, i) ==
  \E j \in 1..(i - 1) : ws[j].key = WrittenNode(ws[i]).parent

C2_ParentWrittenFirst ==
  LET ws == RunWrites
  IN \A i \in DOMAIN ws : HasParent(WrittenNode(ws[i])) => ParentWrittenBefore(ws, i)

\* C2 as amended: the only write of a parented node that no write of its
\* parent precedes is the first write of a copy whose root the resolver
\* returned by its fallback (the lookup of the parent failed)
C2_ParentWrittenFirstUnlessOrphanRoot ==
  LET ws == RunWrites
  IN \A i \in DOMAIN ws :
       HasParent(WrittenNode(ws[i])) =>
         \/ ParentWrittenBefore(ws, i)
         \/ /\ ws[i].pos = 1
            /\ ws[i].key = handled[ws[i].at].root
            /\ handled[ws[i].at].orphan

\* a child is written after its parent, and an orphaned root without it
C2_Witness ==
  LET ws == RunWrites
  IN /\ \E i \in DOMAIN ws : HasParent(WrittenNode(ws[i])) /\ ParentWrittenBefore(ws, i)
     /\ \E i \in DOMAIN ws : HasParent(WrittenNode(ws[i])) /\ ~ParentWrittenBefore(ws, i)

(***************************************************************************)
(* C3: in the writes of one hierarchy copy the root comes before every     *)
(* child model, and every child model before every product whose parent   *)
(* it is.                                                                  *)
(***************************************************************************)
C3_RootThenGroupThenLeaf ==
  \A c \in CopyIdx :
    LET ws == WritesOf(handled[c].copy)
    IN \A i \in DOMAIN ws :
         /\ (ws[i].op = "SaveModel" /\ ws[i].key # handled[c].root)
              => (i > 1 /\ ws[1].key = handled[c].root)
         /\ \A j \in DOMAIN ws :
              (ws[i].op = "SaveModel" /\ ws[j].op = "Save"
                 /\ WrittenNode(ws[j]).parent = ws[i].key) => i < j

\* a copy wrote a root model, a child model that failed, and a leaf of it
C3_Witness ==
  \E c \in CopyIdx :
    LET ws == WritesOf(handled[c].copy)
    IN \E i, j \in DOMAIN ws :
         /\ ws[i].op = "SaveModel" /\ ws[i].key # handled[c].root /\ ~ws[i].ok
         /\ ws[j].op = "Save" /\ WrittenNode(ws[j]).parent = ws[i].key

(***************************************************************************)
(* C4: a destination write failure on a leaf or on a child model does not  *)
(* block later work: the copy still attempts every write the fault-free    *)
(* copy of that root makes, it returns no error, every node of the feeds   *)
(* is handled, and a root is skipped only after a copy of it succeeded.    *)
(***************************************************************************)
AttemptedKeys(copy) ==
  LET ws == WritesOf(copy) IN [i \in DOMAIN ws |-> ws[i].key]

\* a write of the copy failed on a node other than the root
ChildWriteFailed(root, copy) ==
  \E i \in DOMAIN copy.calls :
    IsWrite(copy.calls[i]) /\ ~copy.calls[i].ok /\ copy.calls[i].key # root

\* every source read of the copy succeeded, but for the product probe of a
\* root that is a model, and the root itself was written
ReadsAndRootWriteOk(root, copy) ==
  \A i \in DOMAIN copy.calls :
    LET c == copy.calls[i]
    IN ~c.ok => \/ IsWrite(c) /\ c.key # root
                \/ c.op = "FindByIdentifier" /\ i = 1
                     /\ copy.calls[2].op = "FindModelByCode" /\ copy.calls[2].ok

C4_WriteFailureDoesNotBlock ==
  /\ \A c \in CopyIdx :
       LET copy == handled[c].copy
       IN ReadsAndRootWriteOk(handled[c].root, copy) =>
            /\ copy.err = Nil
            /\ AttemptedKeys(copy) = AttemptedKeys(Sync(handled[c].root, {}))
  /\ \A i \in DOMAIN handled :
       handled[i].outcome = "skipped" =>
         \E j \in 1..(i - 1) :
           /\ handled[j].outcome = "copied" /\ handled[j].copy.err = Nil
           /\ handled[j].root = handled[i].root
  /\ Returned_OK => Len(handled) = Len(modelFeed) + Len(productFeed)

\* a copy in which a child write failed and a later write was attempted,
\* followed in the run by the copy of another root
C4_Witness ==
  \E c, d \in CopyIdx :
    /\ c < d /\ handled[c].root # handled[d].root
    /\ ReadsAndRootWriteOk(handled[c].root, handled[c].copy)
    /\ LET ws == WritesOf(handled[c].copy)
       IN \E i \in DOMAIN ws : ~ws[i].ok /\ i < Len(ws)

(***************************************************************************)
(* C5: when the run returns, Errors holds exactly one entry, naming the    *)
(* node, for every node whose destination write failed in the run, and no  *)
(* entry for a node whose write succeeded.                                 *)
(***************************************************************************)
ErrorsNaming(k) == {i \in DOMAIN result.Errors : result.Errors[i].key = k}

C5_OneErrorPerFailedWrite ==
  Returned_OK =>
    LET ws == RunWrites
    IN \A k \in Keys :
         /\ (\E i \in DOMAIN ws : ws[i].key = k /\ ~ws[i].ok)
              => Cardinality(ErrorsNaming(k)) = 1
         /\ (/\ \E i \in DOMAIN ws : ws[i].key = k
             /\ \A i \in DOMAIN ws : ws[i].key = k => ws[i].ok)
              => ErrorsNaming(k) = {}

(***************************************************************************)
(* C6: when the destination rejects the write of the root itself, the      *)
(* copier still lists and attempts the root's children.                    *)
(***************************************************************************)
RootWriteFailedAt(root, copy, i) ==
  IsWrite(copy.calls[i]) /\ copy.calls[i].key = root /\ ~copy.calls[i].ok

ChildModelKeys(root) == {n.key : n \in {m \in SourceModels : m.parent = root}}

ExpectedOfModelRoot(root) ==
  {root} \cup ChildModelKeys(root)
         \cup {n.key : n \in {p \in SourceProducts :
                                 p.parent \in {root} \cup ChildModelKeys(root)}}

C7_ModelRootCopiesWholeTree ==
  \A c \in CopyIdx :
    LET copy == handled[c].copy
        root == handled[c].root
    IN (/\ root \in {n.key : n \in SourceModels}
        /\ ReadsAndRootWriteOk(root, copy))
         => ExpectedOfModelRoot(root) \subseteq Range(AttemptedKeys(copy))

(***************************************************************************)
(* C8: R has child models G1 and G2, G1 has leaves L1 and L2; the model    *)
(* feed yields G1, the product feed yields L1, nothing fails.  Then both   *)
(* resolve to R, R is copied exactly once, ModelsSynced = 2 and            *)
(* ProductsSynced = 2.                                                     *)
(***************************************************************************)
ScenarioRun ==
  /\ Returned_OK /\ NoFaultInjected
  /\ modelFeed = <<Node("model", "G1", "R")>>
  /\ productFeed = <<Node("product", "L1", "G1")>>

ScenarioResolution ==
  /\ Len(handled) = 2
  /\ handled[1].root = "R" /\ handled[2].root = "R"
  /\ findModelRoot(Node("model", "G1", "R"), {}).root = "R"
  /\ findProductRoot(Node("product", "L1", "G1"), {}).root = "R"
  /\ {i \in CopyIdx : handled[i].root = "R"} = {1}
  /\ CopyIdx = {1}

TheOut == CHOOSE o \in rOut : TRUE

C9_ParentlessIsOwnRoot ==
  (rOut # {} /\ rNode.parent \in {Absent, ""}) =>
    (TheOut.root = rNode.key /\ TheOut.lookups = <<>>)

\* a parentless product was resolved while lookups were failing
C9_Witness ==
  rOut # {} /\ rNode.parent = "" /\ rNode.kind = "product" /\ rFaults # {}

(***************************************************************************)
(* C10: for a parent chain N1 -> N2 -> N3 with N3 parentless, when no      *)
(* lookup fails the resolver returns N3's key for N1 and for N2.  The      *)
(* chains are those of the data model of the code, in which the parent of  *)
(* a model is a model: product or model under model under model, product   *)
(* under product under product or model.                                   *)
(***************************************************************************)
Chains ==
  {ch \in Source \X Source \X Source :
     /\ HasParent(ch[1]) /\ ch[1].parent = ch[2].key
     /\ HasParent(ch[2]) /\ ch[2].parent = ch[3].key
     /\ ~HasParent(ch[3])
     /\ ch[1].kind = "model" => ch[2].kind = "model"
     /\ ch[2].kind = "model" => ch[3].kind = "model"}

C11_AtMostFiftyHops == wHops <= 50

(***************************************************************************)
(* C12: when a node declares a parent the resolver probes the parent key   *)
(* as a model first and as a product only after the model lookup failed,   *)
(* and goes on from whichever lookup succeeds; when the lookups of a hop   *)
(* fail it returns the key of the node it stands on, and the run records   *)
(* no error for that: its errors are those of malformed nodes and of       *)
(* failed copies only.                                                     *)
(***************************************************************************)
\* the source node a successful lookup returned
FoundNode(l) ==
  CHOOSE n \in Source :
    n.key = l.key /\ n.kind = (IF l.op = "FindByIdentifier" THEN "product" ELSE "model")

\* the node the walk stands on after the lookups lk, having started at n
CurrentAt(n, lk) ==
  LET oks == {j \in DOMAIN lk : lk[j].ok}
  IN IF oks = {} THEN n
     ELSE FoundNode(lk[CHOOSE j \in oks : \A k \in oks : k <= j])

ProbeOrder(n, lk) ==
  /\ HasParent(n) =>
       lk # <<>> /\ lk[1].op = "FindModelByCode" /\ lk[1].key = n.parent
  /\ \A j \in DOMAIN lk :
       /\ lk[j].op = "FindByIdentifier" =>
            j > 1 /\ lk[j - 1] = Call("FindModelByCode", lk[j].key, FALSE)
       /\ (lk[j].ok /\ HasParent(FoundNode(lk[j]))) =>
            /\ j < Len(lk)
            /\ lk[j + 1].op = "FindModelByCode"
            /\ lk[j + 1].key = FoundNode(lk[j]).parent
       /\ (lk[j].ok /\ ~HasParent(FoundNode(lk[j]))) => j = Len(lk)

FallbackToCurrent(h) ==
  LET lk == h.lookups
      cur == CurrentAt(h.node, lk)
      failed == lk # <<>> /\ ~lk[Len(lk)].ok
  IN /\ h.root = cur.key
     /\ h.orphan <=> failed
     /\ (failed /\ cur.kind = "product") =>
          /\ Len(lk) >= 2
          /\ lk[Len(lk)] = Call("FindByIdentifier", cur.parent, FALSE)
          /\ lk[Len(lk) - 1] = Call("FindModelByCode", cur.parent, FALSE)
     /\ h.outcome \in {"skipped", "copied"}

C12_ModelThenProductThenFallback ==
  /\ \A i \in DOMAIN handled : handled[i].outcome # "malformed" =>
       ProbeOrder(handled[i].node, handled[i].lookups) /\ FallbackToCurrent(handled[i])
  /\ phase = "Done" => retErr \in {Nil, "error streaming updated models",
                                    "error streaming updated products"}
  /\ (phase \in {"StreamingGroups", "StreamingLeaves"} \/ Returned_OK) =>
       Len(result.Errors) =
         Cardinality({i \in DOMAIN handled : handled[i].outcome = "malformed"})
         + Cardinality({i \in CopyIdx : handled[i].copy.err # Nil})

\* a product whose parent was found neither as a model (the lookup failed)
\* nor as a product was taken for its own root and copied without error
C12_Witness ==
  /\ Returned_OK
  /\ \E i \in CopyIdx :
       /\ handled[i].node.kind = "product" /\ handled[i].orphan
       /\ Len(handled[i].lookups) = 2
       /\ handled[i].root = handled[i].node.key
       /\ handled[i].copy.err = Nil
  /\ result.Errors = <<>>

(***************************************************************************)
(* C13: within one run over an acyclic, unchanged source, two nodes of the *)
(* same tree always resolve to the same root key, whatever the outcomes of *)
(* the source lookups made during the walks.                               *)
(***************************************************************************)
\* the records of handled whose node went through the resolver
ResolvedIdx == {i \in DOMAIN handled : handled[i].outcome # "malformed"}

\* the top of the tree of n: where the parent chain of the source ends
RECURSIVE TopOf(_)
TopOf(n) ==
  LET above == {m \in Source : m.key = n.parent}
  IN IF above = {} THEN n.key ELSE TopOf(CHOOSE m \in above : TRUE)

C13_SameTreeSameRoot ==
  \A i, j \in ResolvedIdx :
    TopOf(handled[i].node) = TopOf(handled[j].node) =>
      handled[i].root = handled[j].root

\* every lookup of the walk answered as the source holds: the only lookups
\* without a hit are those for a key the source has no node of that kind for
NoLookupFailed(h) ==
  \A j \in DOMAIN h.lookups :
    ~h.lookups[j].ok =>
      ~\E n \in Source :
          /\ n.key = h.lookups[j].key
          /\ n.kind = (IF h.lookups[j].op = "FindByIdentifier" THEN "product" ELSE "model")

\* C13 as amended: the roots agree when no lookup of either walk failed; a
\* walk with a failed lookup ends at the node whose parent it could not load
C13_SameTreeSameRootUnlessLookupFailed ==
  /\ \A i, j \in ResolvedIdx :
       ( /\ NoLookupFailed(handled[i]) /\ NoLookupFailed(handled[j])
         /\ TopOf(handled[i].node) = TopOf(handled[j].node) ) =>
       handled[i].root = handled[j].root
  /\ \A i \in ResolvedIdx :
       ~NoLookupFailed(handled[i]) =>
         /\ handled[i].root = CurrentAt(handled[i].node, handled[i].lookups).key
         /\ HasParent(CurrentAt(handled[i].node, handled[i].lookups))

\* a model and a product of the same tree were resolved, the product after
\* a walk of two hops, and no lookup failed
C13_Witness ==
  \E i, j \in ResolvedIdx :
    /\ i # j
    /\ handled[i].node.kind = "model" /\ handled[j].node.kind = "product"
    /\ TopOf(handled[i].node) = TopOf(handled[j].node)
    /\ handled[i].node.key # handled[i].root
    /\ NoLookupFailed(handled[i]) /\ NoLookupFailed(handled[j])
    /\ handled[i].root = handled[j].root

(***************************************************************************)
(* C14: when the root key is found neither as a product nor as a model,    *)
(* the copy performs no destination write and adds nothing to ModelsSynced *)
(* and ProductsSynced; the orchestrator appends exactly one error naming   *)
(* that root key and goes on with the next node.                           *)
(***************************************************************************)
\* the copy of the record h found its root neither as product nor as model
RootNotFound(h) ==
  /\ h.outcome = "copied"
  /\ h.copy.err = "common not found as product or model"

C14_NotFoundStep ==
  (Len(handled') = Len(handled) + 1 /\ RootNotFound(handled'[Len(handled')])) =>
    LET h == handled'[Len(handled')]
    IN /\ h.copy.calls = << Call("FindByIdentifier", h.root, FALSE),
                            Call("FindModelByCode", h.root, FALSE) >>
       /\ WritesOf(h.copy) = <<>>
       /\ result'.ModelsSynced = result.ModelsSynced
       /\ result'.ProductsSynced = result.ProductsSynced
       /\ result'.Errors = Append(result.Errors, NodeError(h.root, h.copy.err))
       /\ syncedHierarchies' = syncedHierarchies
       /\ phase' = phase /\ idx' = idx + 1 /\ retErr' = Nil

C14_RootNotFoundIsOneError == [][C14_NotFoundStep]_vars

\* the root of a changed model could not be loaded by the copier; the run
\* went on and returned its result
C14_Witness ==
  /\ Returned_OK
  /\ \E i \in CopyIdx :
       /\ RootNotFound(handled[i])
       /\ i < Len(handled)
       /\ Cardinality(ErrorsNaming(handled[i].root)) = 1

(***************************************************************************)
(* C15: two consecutive copies of the same root against the unchanged      *)
(* source (the second copy reads what the first read), with all writes     *)
(* succeeding, leave the destination exactly as it was after the first:    *)
(* the same keys with the same payloads.  Every write is an upsert under   *)
(* the node's key of the node without _links, created and updated.         *)
(***************************************************************************)
\* the source reads among the calls of a copy
ReadsOf(calls) == SelectSeq(calls, LAMBDA c : ~IsWrite(c))

\* the keys the last copy wrote under
WrittenKeys ==
  {<<IF w.op = "Save" THEN "product" ELSE "model", w.key>> :
     w \in Range(WritesOf([calls |-> dCalls]))}

ModelsStreamError == "error streaming updated models"
ProductsStreamError == "error streaming updated products"

C16_Step ==
  \* an error is returned only out of a stream, by the step that ends the run
  /\ retErr' # retErr =>
       /\ retErr = Nil
       /\ phase \in {"StreamingGroups", "StreamingLeaves"} /\ phase' = "Done"
       /\ retErr' = (IF phase = "StreamingGroups" THEN ModelsStreamError
                                                  ELSE ProductsStreamError)
       /\ handled' = handled
  \* after a failure of the models stream no product was handled
  /\ retErr' = ModelsStreamError =>
       \A i \in DOMAIN handled' : handled'[i].node.kind = "model"
  \* handling a node, whatever fails in it, neither ends the run nor
  \* returns an error: it adds at most one entry to Errors
  /\ handled' # handled =>
       /\ retErr' = Nil /\ phase' = phase
       /\ LET h == handled'[Len(handled')]
              failed == \/ h.outcome = "malformed"
                        \/ h.outcome = "copied" /\ h.copy.err # Nil
          IN Len(result'.Errors) = Len(result.Errors) + (IF failed THEN 1 ELSE 0)
  \* the run that ends without a stream error returns the result, with
  \* the errors recorded so far
  /\ (phase # "Done" /\ phase' = "Done" /\ retErr' = Nil) =>
       /\ result'.Errors = result.Errors
       /\ result'.Success \in BOOLEAN
       /\ Len(handled') = Len(modelFeed) + Len(productFeed)

C17_SuccessIffNoErrors ==
  Returned_OK => (result.Success <=> result.Errors = <<>>)

\* a run returned a result that lists an error and is not a success
C17_Witness ==
  Returned_OK /\ result.Errors # <<>> /\ ~result.Success

(***************************************************************************)
(* C18: a run goes through the phases Idle, StreamingGroups,               *)
(* StreamingLeaves, Done in that order and never back (only a failure of   *)
(* the models stream goes from StreamingGroups straight to Done); every    *)
(* node of the models feed is handled before the first node of the         *)
(* products feed; the nodes of a feed are handled one at a time, in the    *)
(* order the feed yields them, each with its resolution and its copy       *)
(* complete before the next node is taken.                                 *)
(***************************************************************************)
PhaseRank(p) ==
  CASE p = "Idle" -> 0
    [] p = "StreamingGroups" -> 1
    [] p = "StreamingLeaves" -> 2
    [] p = "Done" -> 3

\* the two feeds in the order the run reads them
WholeFeed == modelFeed \o productFeed

C18_Step ==
  /\ PhaseRank(phase') >= PhaseRank(phase)
  /\ PhaseRank(phase') > PhaseRank(phase) + 1 =>
       phase = "StreamingGroups" /\ retErr' = "error streaming updated models"
  /\ handled' # handled =>
       /\ Len(handled') = Len(handled) + 1
       /\ SubSeq(handled', 1, Len(handled)) = handled
       /\ phase' = phase
       /\ handled'[Len(handled')].node =
            (IF phase = "StreamingGroups" THEN modelFeed ELSE productFeed)[idx]
       /\ idx' = idx + 1
       /\ handled'[Len(handled')].outcome \in {"malformed", "skipped", "copied"}
  /\ Len(handled') <= Len(WholeFeed)
  /\ \A i \in DOMAIN handled' : handled'[i].node = WholeFeed[i]
  /\ phase' = "StreamingGroups" => Len(handled') = idx' - 1
  /\ phase' = "StreamingLeaves" => Len(handled') = Len(modelFeed) + idx' - 1

Malformed(n) == n.key = Absent

C19_Step ==
  (handled' # handled /\ Malformed(handled'[Len(handled')].node)) =>
    LET h == handled'[Len(handled')]
    IN /\ Len(result'.Errors) = Len(result.Errors) + 1
       /\ SubSeq(result'.Errors, 1, Len(result.Errors)) = result.Errors
       /\ result'.Errors[Len(result'.Errors)].msg \in
            {"could not extract model code", "could not extract product identifier"}
       /\ h.outcome = "malformed"
       /\ h.lookups = <<>> /\ h.root = Nil
       /\ syncedHierarchies' = syncedHierarchies
       /\ result'.ModelsSynced = result.ModelsSynced
       /\ result'.ProductsSynced = result.ProductsSynced
       /\ phase' = phase /\ retErr' = retErr /\ idx' = idx + 1

C20_OneBoundedBatch ==
  /\ Cardinality(sPages) <= 1
  /\ \A pg \in sPages : pg # {} /\ Cardinality(pg) <= batchSize
  /\ sInVisit => Cardinality(sPages) = 1
  /\ sVisits = sPagesFetched - (IF sPages # {} /\ ~sInVisit THEN 1 ELSE 0)
  /\ sPagesFetched * batchSize >= sFetched
  /\ sKept \subseteq UNION sPages
  /\ ~sInVisit => sKept = {}

\* the callback runs on the third page of a stream, one node, after two
\* full pages
C20_Witness ==
  /\ sInVisit /\ sPagesFetched = 3 /\ sVisits = 3
  /\ Cardinality(ThePage) >= 1
  /\ sFetched > 2 * batchSize

(***************************************************************************)
(* C21: the set of already-copied roots is empty at the start of every     *)
(* invocation of Sync, only grows during the invocation, and is not shared *)
(* between invocations: a second run with the same timestamp copies again  *)
(* every root the first run copied (the roots the first run resolved       *)
(* without a failed lookup, the second run meeting no failure).            *)
(***************************************************************************)
\* the record h stands for a hierarchy copy that returned without error
CopiedOk(h) == h.outcome = "copied" /\ h.copy.err = Nil

C21_Step ==
  /\ (phase = "Idle" /\ phase' # "Idle") => syncedHierarchies' = {}
  /\ (phase \in {"StreamingGroups", "StreamingLeaves"}) =>
       syncedHierarchies \subseteq syncedHierarchies'
  /\ (phase # "Done" /\ phase' = "Done" /\ retErr' = Nil
        /\ runNo >= 2 /\ faultsLeft' = faultsAtStart) =>
       \A i \in DOMAIN prevHandled :
         (CopiedOk(prevHandled[i]) /\ NoLookupFailed(prevHandled[i])) =>
           \E j \in DOMAIN handled' :
             CopiedOk(handled'[j]) /\ handled'[j].root = prevHandled[i].root

C21_FreshSetPerRun == [][C21_Step]_vars

\* the second run has returned; both runs copied the hierarchy of R
C21_Witness ==
  /\ runNo = 2 /\ Returned_OK
  /\ \E i \in DOMAIN prevHandled : CopiedOk(prevHandled[i]) /\ prevHandled[i].root = "R"
  /\ \E j \in DOMAIN handled : CopiedOk(handled[j]) /\ handled[j].root = "R"
  /\ "R" \in syncedHierarchies

(***************************************************************************)
(* C22: at return of Sync, ModelsSynced and ProductsSynced are the sums of *)
(* the ModelsSynced and ProductsSynced of the results of the hierarchy     *)
(* copies invoked in the run (a copy that returned an error returned no    *)
(* result), a skipped root adds nothing, and TotalSynced is their sum.     *)
(***************************************************************************)
\* the sum, over the records i..Len(handled) of copies that returned a
\* result, of the field f of that result
RECURSIVE CopiedSum(_, _)
CopiedSum(f, i) ==
  IF i > Len(handled) THEN 0
  ELSE (IF CopiedOk(handled[i]) THEN handled[i].copy.result[f] ELSE 0)
       + CopiedSum(f, i + 1)

C22_CountsAreSumsOfCopies ==
  Returned_OK =>
    /\ result.ModelsSynced = CopiedSum("ModelsSynced", 1)
    /\ result.ProductsSynced = CopiedSum("ProductsSynced", 1)
    /\ result.TotalSynced = result.ModelsSynced + result.ProductsSynced

\* two hierarchies were copied in one run: that of R (3 models, 2 products)
\* and that of S (2 products)
C22_Witness ==
  /\ Returned_OK
  /\ Cardinality({i \in DOMAIN handled : CopiedOk(handled[i])}) = 2
  /\ result.ModelsSynced = 3 /\ result.ProductsSynced = 4 /\ result.TotalSynced = 7

(***************************************************************************)
(* C23: the hierarchy copier reads the root key as a model only when the   *)
(* product lookup reported not-found: after a product lookup that failed   *)
(* for another reason (the source holds a product of that key) it makes no *)
(* model lookup and writes no model.                                       *)
(***************************************************************************)
\* the source holds a product of that key: a failed lookup of it is not a
\* not-found
ProductExists(k) == \E n \in SourceProducts : n.key = k

C23_ModelProbeOnlyAfterNotFound ==
  \A i \in CopyIdx :
    ProductExists(handled[i].root) =>
      \A j \in DOMAIN handled[i].copy.calls :
        handled[i].copy.calls[j].op \notin {"FindModelByCode", "SaveModel"}

(***************************************************************************)
(* C24: when the destination save of the product named by the identifier   *)
(* fails, syncing.Service.Sync returns a non-nil error together with a     *)
(* non-nil result (whose Success is false).                                *)
(***************************************************************************)
\* the copy found its root as a product and the destination rejected the
\* write of it
RootProductSaveFailed(h) ==
  /\ Len(h.copy.calls) = 2
  /\ h.copy.calls[1] = Call("FindByIdentifier", h.root, TRUE)
  /\ h.copy.calls[2] = Call("Save", h.root, FALSE)

C24_SaveFailureReturnsResultAndError ==
  \A i \in CopyIdx :
    RootProductSaveFailed(handled[i]) =>
      /\ handled[i].copy.err # Nil
      /\ handled[i].copy.result # Nil

(***************************************************************************)
(* C28: at every point of a run, syncedHierarchies holds exactly the root  *)
(* keys whose hierarchy copy has returned without error in this run; a     *)
(* root whose copy returned an error is not in it.                         *)
(***************************************************************************)
C28_SyncedAreTheCopiedRoots ==
  syncedHierarchies =
    {handled[i].root : i \in {j \in DOMAIN handled : CopiedOk(handled[j])}}

\* one root was copied and marked, the copy of another failed
C28_Witness ==
  /\ syncedHierarchies # {}
  /\ \E i \in CopyIdx :
       /\ handled[i].copy.err # Nil
       /\ handled[i].root \notin syncedHierarchies

\* the destination writes of the run that succeeded, by operation, among the
\* copies whose index in handled is in S
SucceededWrites(op, S) ==
  Cardinality({j \in DOMAIN RunWrites :
                 RunWrites[j].op = op /\ RunWrites[j].ok /\ RunWrites[j].at \in S})

CopiedOkIdx == {i \in DOMAIN handled : CopiedOk(handled[i])}

(***************************************************************************)
(* C29: at a return with a result, ModelsSynced is the number of SaveModel *)
(* calls that succeeded during the run and ProductsSynced the number of    *)
(* Save calls that succeeded, the writes of a hierarchy copy that later    *)
(* failed included.                                                        *)
(***************************************************************************)
C29_CountsAreAllSucceededWrites ==
  Returned_OK =>
    /\ result.ModelsSynced = SucceededWrites("SaveModel", CopyIdx)
    /\ result.ProductsSynced = SucceededWrites("Save", CopyIdx)

(***************************************************************************)
(* C29, amended: the counts are the numbers of SaveModel and Save calls    *)
(* that succeeded within the hierarchy copies that returned without error; *)
(* the writes of a copy that returned an error are not counted.            *)
(***************************************************************************)
C29_CountsAreWritesOfCompletedCopies ==
  Returned_OK =>
    /\ result.ModelsSynced = SucceededWrites("SaveModel", CopiedOkIdx)
    /\ result.ProductsSynced = SucceededWrites("Save", CopiedOkIdx)

\* a copy wrote its root and then failed, and a later copy completed
C29_Witness ==
  /\ Returned_OK
  /\ CopiedOkIdx # {}
  /\ \E i \in CopyIdx \ CopiedOkIdx :
       SucceededWrites("SaveModel", {i}) + SucceededWrites("Save", {i}) > 0
  /\ result.ModelsSynced < SucceededWrites("SaveModel", CopyIdx)

(***************************************************************************)
(* The in-memory command bus (kit/bus/in_memory): CommandBus.Register and  *)
(* CommandBus.Dispatch.  A middleware is a function of the message and of  *)
(* next; the two kinds below are the Logging middleware, which calls next  *)
(* and returns what next returned, and a middleware that returns without   *)
(* calling next.  executionOrder is the list the middlewares and the       *)
(* handler of TestCommandBus_MultipleMiddlewares append to.                *)
(***************************************************************************)
MaxMiddlewares == 2

MessageTypes == {"mock.command", "other.command"}
MiddlewareKinds == {"calls next", "returns"}
HandlerKinds == {"handled", "handler error"}

Response(data) == [Data |-> data, Error |-> Nil]
EmptyResponse == Response(Nil)

\* mockHandler.Handle: the default handler, and the one that fails
Handle(kind) ==
  IF kind = "handled" THEN [response |-> Response("handled"), err |-> Nil]
  ELSE [response |-> EmptyResponse, err |-> "handler error"]

MiddlewareLists ==
  UNION { [1..n -> MiddlewareKinds] : n \in 0..MaxMiddlewares }

\* a chain built with the first middleware innermost
BuildChain_Reversed(i, chain) == [k \in 1..i |-> i + 1 - k] \o chain

\* the loop of Dispatch: from the last middleware to the first, each one
\* wraps the chain built so far.  The chain is the list of the middlewares
\* from the outermost wrapper to the innermost.
RECURSIVE BuildChain(_, _)
BuildChain(i, chain) ==
  IF i = 0 THEN chain ELSE BuildChain(i - 1, <<i>> \o chain)

Chain == BuildChain(Len(middlewares), <<>>)

Entry(what, m) == [what |-> what, m |-> m]

InitBus ==
  /\ middlewares \in MiddlewareLists
  /\ handlers = <<>>
  /\ cmd = Nil
  /\ busPc = "idle"
  /\ busAt = 0
  /\ executionOrder = <<>>
  /\ response = EmptyResponse
  /\ busErr = Nil
  /\ NoOrch /\ NoResolve /\ NoWalk /\ NoDest /\ NoStream /\ NoRuns /\ NoWeb

\* a Dispatch that reports a missing handler as an error
Dispatch_NotFoundIsError(t) ==
  /\ busPc = "idle"
  /\ cmd' = t
  /\ executionOrder' = <<>>
  /\ response' = EmptyResponse
  /\ IF t \notin DOMAIN handlers
     THEN busPc' = "returned" /\ busAt' = 0 /\ busErr' = "handler not found"
     ELSE busPc' = "calling" /\ busAt' = 1 /\ busErr' = Nil
  /\ UNCHANGED <<middlewares, handlers>>

\* Register: b.handlers[cmdType] = handler
Register(cmdType, handler) ==
  /\ busPc = "idle"
  /\ handlers' = [t \in DOMAIN handlers \cup {cmdType} |->
                    IF t = cmdType THEN handler ELSE handlers[t]]
  /\ UNCHANGED <<middlewares, cmd, busPc, busAt, executionOrder, response,
                 busErr>>

\* Dispatch up to the call of the chain: without a handler for the type of
\* the message it returns at once
Dispatch(t) ==
  /\ busPc = "idle"
  /\ cmd' = t
  /\ executionOrder' = <<>>
  /\ response' = EmptyResponse
  /\ busErr' = Nil
  /\ IF t \notin DOMAIN handlers
     THEN busPc' = "returned" /\ busAt' = 0
     ELSE busPc' = "calling" /\ busAt' = 1
  /\ UNCHANGED <<middlewares, handlers>>

\* the wrapper at depth busAt runs its middleware up to the next call, or
\* to its return when the middleware does not call next
MiddlewareBefore ==
  /\ busPc = "calling"
  /\ busAt <= Len(Chain)
  /\ executionOrder' = Append(executionOrder, Entry("before", Chain[busAt]))
  /\ IF middlewares[Chain[busAt]] = "calls next"
     THEN /\ busAt' = busAt + 1
          /\ UNCHANGED <<busPc, response, busErr>>
     ELSE /\ busPc' = "returning"
          /\ busAt' = busAt - 1
          /\ response' = EmptyResponse
          /\ busErr' = "rejected"
  /\ UNCHANGED <<middlewares, handlers, cmd>>

\* finalHandler: handler.Handle(ctx, m)
HandlerRuns ==
  /\ busPc = "calling"
  /\ busAt = Len(Chain) + 1
  /\ executionOrder' = Append(executionOrder, Entry("handler", 0))
  /\ response' = Handle(handlers[cmd]).response
  /\ busErr' = Handle(handlers[cmd]).err
  /\ busPc' = "returning"
  /\ busAt' = busAt - 1
  /\ UNCHANGED <<middlewares, handlers, cmd>>

\* next has returned to the wrapper at depth busAt: its middleware runs to
\* its end and returns what next returned
MiddlewareAfter ==
  /\ busPc = "returning"
  /\ busAt >= 1
  /\ executionOrder' = Append(executionOrder, Entry("after", Chain[busAt]))
  /\ busAt' = busAt - 1
  /\ UNCHANGED <<middlewares, handlers, cmd, busPc, response, busErr>>

\* return chain(ctx, cmd)
DispatchReturns ==
  /\ busPc = "returning"
  /\ busAt = 0
  /\ busPc' = "returned"
  /\ UNCHANGED <<middlewares, handlers, cmd, busAt, executionOrder, response,
                 busErr>>

\* the caller has read the response; the bus is ready for another message
CallerContinues ==
  /\ busPc = "returned"
  /\ busPc' = "idle"
  /\ cmd' = Nil
  /\ executionOrder' = <<>>
  /\ response' = EmptyResponse
  /\ busErr' = Nil
  /\ UNCHANGED <<middlewares, handlers, busAt>>

NextBus ==
  \/ (\E t \in MessageTypes, h \in HandlerKinds : Register(t, h))
       /\ UNCHANGED outsideBus
  \/ (\E t \in MessageTypes : Dispatch(t)) /\ UNCHANGED outsideBus
  \/ MiddlewareBefore /\ UNCHANGED outsideBus
  \/ HandlerRuns /\ UNCHANGED outsideBus
  \/ MiddlewareAfter /\ UNCHANGED outsideBus
  \/ DispatchReturns /\ UNCHANGED outsideBus
  \/ CallerContinues /\ UNCHANGED outsideBus

SpecBus == InitBus /\ [][NextBus]_vars

\* the position of the first middleware that does not call next, or one
\* past the last middleware
RECURSIVE FirstReturning(_)
FirstReturning(i) ==
  IF i > Len(middlewares) \/ middlewares[i] = "returns" THEN i
  ELSE FirstReturning(i + 1)

AllCallNext == \A i \in 1..Len(middlewares) : middlewares[i] = "calls next"

\* the order of execution of a whole dispatch to a registered handler
ExpectedOrder ==
  LET k == FirstReturning(1)
      n == Len(middlewares)
      last == IF k > n THEN n ELSE k
      befores == [i \in 1..last |-> Entry("before", i)]
      afters == [i \in 1..(k - 1) |-> Entry("after", k - i)]
  IN  befores \o (IF k > n THEN <<Entry("handler", 0)>> ELSE <<>>) \o afters

IsPrefix(s, t) == Len(s) <= Len(t) /\ s = SubSeq(t, 1, Len(s))

HandlerRan == \E i \in 1..Len(executionOrder) : executionOrder[i].what = "handler"

(***************************************************************************)
(* C25: Dispatch runs the middlewares as nested wrappers in registration   *)
(* order: m1 up to its next call, then m2, ..., then the handler exactly   *)
(* once, then the rest of mn, ..., and last the rest of m1; the handler    *)
(* runs only if every middleware calls next.                               *)
(***************************************************************************)
C25_NestedInRegistrationOrder ==
  (busPc \in {"calling", "returning", "returned"} /\ cmd \in DOMAIN handlers) =>
    /\ IsPrefix(executionOrder, ExpectedOrder)
    /\ busPc = "returned" => executionOrder = ExpectedOrder
    /\ HandlerRan => AllCallNext
    /\ Cardinality({i \in 1..Len(executionOrder) :
                      executionOrder[i].what = "handler"}) <= 1

C25_Witness ==
  /\ busPc = "returned"
  /\ Len(middlewares) = 2
  /\ executionOrder = << Entry("before", 1), Entry("before", 2),
                         Entry("handler", 0),
                         Entry("after", 2), Entry("after", 1) >>

(***************************************************************************)
(* C26: Dispatch of a message whose type has no registered handler returns *)
(* an empty Response and a nil error and invokes neither a handler nor a   *)
(* middleware; when a handler is registered and runs, Dispatch returns the *)
(* error the handler returned.                                             *)
(***************************************************************************)
C26_NoHandlerIsEmptySuccess ==
  busPc = "returned" =>
    /\ cmd \notin DOMAIN handlers =>
         /\ response = EmptyResponse
         /\ busErr = Nil
         /\ executionOrder = <<>>
    /\ HandlerRan => busErr = Handle(handlers[cmd]).err

C26_Witness ==
  /\ busPc = "returned"
  /\ cmd \notin DOMAIN handlers
  /\ middlewares # <<>>
  /\ handlers # <<>>

(***************************************************************************)
(* The web server (internal/platform/web): one command started through     *)
(* POST /api/execute and the websocket clients of GET /ws.  The goroutines *)
(* are the two streamOutput calls ("stdout", "stderr"), the goroutine that *)
(* waits for the command ("exit") and, for every connection, the request   *)
(* handler handleWebSocket followed by the reader goroutine it starts.     *)
(* Each action is one step of one goroutine between two points where       *)
(* another goroutine can run.  A write onto a connection takes two steps   *)
(* (start, end): websocket.Conn supports one concurrent writer, and two    *)
(* writes that overlap are a data race whose outcomes are an intact frame, *)
(* a corrupt frame or the panic "concurrent write to websocket connection".*)
(***************************************************************************)
MaxConns == 1
MaxChunks == 1

Conns == 1..MaxConns
Streams == {"stdout", "stderr"}
Goroutines == {"stdout", "stderr", "exit"}
ExitCodes == {0, 1}

Msg(type, stream, data) == [type |-> type, stream |-> stream, data |-> data]
\* the data of a message is a number: the rank of an output chunk in its
\* stream, the exit code, 0 for a message without data
Welcome == Msg("connected", Nil, 0)
Corrupt == Msg("corrupt", Nil, 0)
NoMsg == Msg(Nil, Nil, 0)

\* what a client can receive of a write that ended on connection c
Frames(c, message) == IF c \in raced THEN {message, Corrupt} ELSE {message}

InitWeb ==
  /\ clients = {}
  /\ clientsMux = Nil
  /\ connPc = [c \in Conns |-> "none"]
  /\ gone = {}
  /\ writers = [c \in Conns |-> {}]
  /\ raced = {}
  /\ received = [c \in Conns |-> <<>>]
  /\ procState = "none"
  /\ pipe = [st \in Streams |-> <<>>]
  /\ emitted = [st \in Streams |-> 0]
  /\ pipeClosed = FALSE
  /\ gPc = [g \in Goroutines |-> "none"]
  /\ gMsg = [g \in Goroutines |-> NoMsg]
  /\ gTodo = [g \in Goroutines |-> {}]
  /\ gAt = [g \in Goroutines |-> 0]
  /\ crashed = FALSE
  /\ NoOrch /\ NoResolve /\ NoWalk /\ NoDest /\ NoStream /\ NoRuns /\ NoBus

\* a write by goroutine w starts on connection c
WriteStarts(c, w) ==
  /\ writers' = [writers EXCEPT ![c] = @ \cup {w}]
  /\ raced' = IF writers[c] # {} THEN raced \cup {c} ELSE raced

\* the write of goroutine w on connection c is over
WriteEnds(c, w) ==
  /\ writers' = [writers EXCEPT ![c] = @ \ {w}]
  /\ raced' = IF writers[c] = {w} THEN raced \ {c} ELSE raced

\* handleWebSocket up to the unlock: the connection is upgraded and added
\* to the clients
RegisterClient(c) ==
  /\ ~crashed
  /\ connPc[c] = "none"
  /\ clientsMux = Nil
  /\ clients' = clients \cup {c}
  /\ connPc' = [connPc EXCEPT ![c] = "registered"]
  /\ UNCHANGED <<clientsMux, gone, writers, raced, received, procState, pipe, emitted,
                 pipeClosed, gPc, gMsg, gTodo, gAt, crashed>>

\* handleWebSocket: conn.WriteJSON(welcome) starts, outside the mutex
WelcomeStarts(c) ==
  /\ ~crashed
  /\ connPc[c] = "registered"
  /\ connPc' = [connPc EXCEPT ![c] = "welcoming"]
  /\ WriteStarts(c, "handleWebSocket")
  /\ UNCHANGED <<clients, clientsMux, gone, received, procState, pipe, emitted,
                 pipeClosed, gPc, gMsg, gTodo, gAt, crashed>>

\* the welcome write returns (its error is dropped) and the reader goroutine
\* is started
WelcomeEnds(c) ==
  /\ ~crashed
  /\ connPc[c] = "welcoming"
  /\ connPc' = [connPc EXCEPT ![c] = "reading"]
  /\ WriteEnds(c, "handleWebSocket")
  /\ IF c \in gone
     THEN UNCHANGED received
     ELSE \E f \in Frames(c, Welcome) :
            received' = [received EXCEPT ![c] = Append(@, f)]
  /\ UNCHANGED <<clients, clientsMux, gone, procState, pipe, emitted, pipeClosed, gPc,
                 gMsg, gTodo, gAt, crashed>>

\* the browser closes its end of the connection
ClientDisconnects(c) ==
  /\ ~crashed
  /\ connPc[c] # "none"
  /\ c \notin gone
  /\ gone' = gone \cup {c}
  /\ UNCHANGED <<clients, clientsMux, connPc, writers, raced, received,
                 procState, pipe, emitted, pipeClosed, gPc, gMsg, gTodo, gAt, crashed>>

\* the reader goroutine: ReadMessage fails, the deferred function removes
\* the connection under the mutex and closes it
ReaderExits(c) ==
  /\ ~crashed
  /\ connPc[c] = "reading"
  /\ c \in gone
  /\ clientsMux = Nil
  /\ clients' = clients \ {c}
  /\ connPc' = [connPc EXCEPT ![c] = "closed"]
  /\ UNCHANGED <<clientsMux, gone, writers, raced, received, procState, pipe, emitted,
                 pipeClosed, gPc, gMsg, gTodo, gAt, crashed>>

\* handleExecuteCommand: the command is started and the three goroutines
\* are launched
handleExecuteCommand ==
  /\ ~crashed
  /\ procState = "none"
  /\ procState' = "running"
  /\ gPc' = [g \in Goroutines |-> IF g = "exit" THEN "waiting" ELSE "read"]
  /\ UNCHANGED <<clients, clientsMux, connPc, gone, writers, raced, received,
                 pipe, emitted, pipeClosed, gMsg, gTodo, gAt, crashed>>

\* the command writes a chunk of output
CommandWrites(st) ==
  /\ ~crashed
  /\ procState = "running"
  /\ emitted[st] < MaxChunks
  /\ emitted' = [emitted EXCEPT ![st] = @ + 1]
  /\ pipe' = [pipe EXCEPT ![st] = Append(@, emitted[st] + 1)]
  /\ UNCHANGED <<clients, clientsMux, connPc, gone, writers, raced, received,
                 procState, pipeClosed, gPc, gMsg, gTodo, gAt, crashed>>

\* the command ends
CommandExits ==
  /\ ~crashed
  /\ procState = "running"
  /\ procState' = "exited"
  /\ UNCHANGED <<clients, clientsMux, connPc, gone, writers, raced, received,
                 pipe, emitted, pipeClosed, gPc, gMsg, gTodo, gAt, crashed>>

\* streamOutput: reader.Read(buf).  A chunk is read (n > 0); or the pipe
\* was closed by Wait, or drained after the command ended (err # nil, n = 0)
Read(st) ==
  /\ ~crashed
  /\ gPc[st] = "read"
  /\ IF pipeClosed
     THEN /\ gPc' = [gPc EXCEPT ![st] = "done"]
          /\ UNCHANGED <<pipe, gMsg>>
     ELSE IF pipe[st] # <<>>
     THEN /\ gMsg' = [gMsg EXCEPT ![st] = Msg("output", st, Head(pipe[st]))]
          /\ pipe' = [pipe EXCEPT ![st] = Tail(@)]
          /\ gPc' = [gPc EXCEPT ![st] = "lock"]
     ELSE /\ procState = "exited"
          /\ gPc' = [gPc EXCEPT ![st] = "done"]
          /\ UNCHANGED <<pipe, gMsg>>
  /\ UNCHANGED <<clients, clientsMux, connPc, gone, writers, raced, received,
                 procState, emitted, pipeClosed, gTodo, gAt, crashed>>

\* the exit goroutine: cmd.Wait() returns once the command has ended; it
\* closes the read ends of the pipes
WaitReturns(code) ==
  /\ ~crashed
  /\ gPc["exit"] = "waiting"
  /\ procState = "exited"
  /\ pipeClosed' = TRUE
  /\ gMsg' = [gMsg EXCEPT !["exit"] = Msg("exit", Nil, code)]
  /\ gPc' = [gPc EXCEPT !["exit"] = "lock"]
  /\ UNCHANGED <<clients, clientsMux, connPc, gone, writers, raced, received,
                 procState, pipe, emitted, gTodo, gAt, crashed>>

\* broadcast: s.clientsMux.Lock() and the start of the range over clients
BroadcastLocks(g) ==
  /\ ~crashed
  /\ gPc[g] = "lock"
  /\ clientsMux = Nil
  /\ clientsMux' = g
  /\ gTodo' = [gTodo EXCEPT ![g] = clients]
  /\ gPc' = [gPc EXCEPT ![g] = "range"]
  /\ UNCHANGED <<clients, connPc, gone, writers, raced, received, procState,
                 pipe, emitted, pipeClosed, gMsg, gAt, crashed>>

\* broadcast: client.WriteJSON(message) starts for the next client
BroadcastWriteStarts(g, c) ==
  /\ ~crashed
  /\ gPc[g] = "range"
  /\ c \in gTodo[g]
  /\ gAt' = [gAt EXCEPT ![g] = c]
  /\ gPc' = [gPc EXCEPT ![g] = "writing"]
  /\ WriteStarts(c, g)
  /\ UNCHANGED <<clients, clientsMux, connPc, gone, received, procState,
                 pipe, emitted, pipeClosed, gMsg, gTodo, crashed>>

\* broadcast: the write returns; on an error the client is closed and
\* deleted from the clients
BroadcastWriteEnds(g) ==
  /\ ~crashed
  /\ gPc[g] = "writing"
  /\ WriteEnds(gAt[g], g)
  /\ IF gAt[g] \in gone
     THEN /\ clients' = clients \ {gAt[g]}
          /\ UNCHANGED received
     ELSE /\ \E f \in Frames(gAt[g], gMsg[g]) :
               received' = [received EXCEPT ![gAt[g]] = Append(@, f)]
          /\ UNCHANGED clients
  /\ gTodo' = [gTodo EXCEPT ![g] = @ \ {gAt[g]}]
  /\ gAt' = [gAt EXCEPT ![g] = 0]
  /\ gPc' = [gPc EXCEPT ![g] = "range"]
  /\ UNCHANGED <<clientsMux, connPc, gone, procState, pipe, emitted, pipeClosed, gMsg,
                 crashed>>

\* broadcast: the range is over and the deferred Unlock runs; streamOutput
\* goes back to Read, the exit goroutine ends
BroadcastUnlocks(g) ==
  /\ ~crashed
  /\ gPc[g] = "range"
  /\ gTodo[g] = {}
  /\ clientsMux' = Nil
  /\ gPc' = [gPc EXCEPT ![g] = IF g = "exit" THEN "done" ELSE "read"]
  /\ gMsg' = [gMsg EXCEPT ![g] = NoMsg]
  /\ UNCHANGED <<clients, connPc, gone, writers, raced, received, procState,
                 pipe, emitted, pipeClosed, gTodo, gAt, crashed>>

\* two writes overlap on a connection and the websocket library panics
ConcurrentWritePanics(c) ==
  /\ ~crashed
  /\ Cardinality(writers[c]) >= 2
  /\ crashed' = TRUE
  /\ UNCHANGED <<clients, clientsMux, connPc, gone, writers, raced, received,
                 procState, pipe, emitted, pipeClosed, gPc, gMsg, gTodo, gAt>>

NextWeb ==
  \/ (\E c \in Conns : RegisterClient(c)) /\ UNCHANGED outsideWeb
  \/ (\E c \in Conns : WelcomeStarts(c)) /\ UNCHANGED outsideWeb
  \/ (\E c \in Conns : WelcomeEnds(c)) /\ UNCHANGED outsideWeb
  \/ (\E c \in Conns : ClientDisconnects(c)) /\ UNCHANGED outsideWeb
  \/ (\E c \in Conns : ReaderExits(c)) /\ UNCHANGED outsideWeb
  \/ handleExecuteCommand /\ UNCHANGED outsideWeb
  \/ (\E st \in Streams : CommandWrites(st)) /\ UNCHANGED outsideWeb
  \/ CommandExits /\ UNCHANGED outsideWeb
  \/ (\E st \in Streams : Read(st)) /\ UNCHANGED outsideWeb
  \/ (\E code \in ExitCodes : WaitReturns(code)) /\ UNCHANGED outsideWeb
  \/ (\E g \in Goroutines : BroadcastLocks(g)) /\ UNCHANGED outsideWeb
  \/ (\E g \in Goroutines, c \in Conns : BroadcastWriteStarts(g, c))
       /\ UNCHANGED outsideWeb
  \/ (\E g \in Goroutines : BroadcastWriteEnds(g)) /\ UNCHANGED outsideWeb
  \/ (\E g \in Goroutines : BroadcastUnlocks(g)) /\ UNCHANGED outsideWeb
  \/ (\E c \in Conns : ConcurrentWritePanics(c)) /\ UNCHANGED outsideWeb

SpecWeb == InitWeb /\ [][NextWeb]_vars

(***************************************************************************)
(* C27: the exit message of a command is broadcast only after every output *)
(* message of that command: no client receives an output message after the *)
(* exit message, in any interleaving of the two streamOutput goroutines    *)
(* and the goroutine that waits for the command.                           *)
(***************************************************************************)
C27_ExitAfterAllOutput ==
  \A c \in Conns :
    \A i, j \in DOMAIN received[c] :
      (i < j /\ received[c][i].type = "exit") => received[c][j].type # "output"

(***************************************************************************)
(* C30: at most one goroutine writes to a given websocket connection at    *)
(* any time (the welcome write of handleWebSocket and the writes of        *)
(* broadcast never overlap), and a connection is written to only while it  *)
(* is in the clients set.                                                  *)
(***************************************************************************)
C30_OneWriterPerConnection ==
  \A c \in Conns :
    /\ Cardinality(writers[c]) <= 1
    /\ writers[c] # {} => c \in clients

====
